---- MODULE Spec2Model ----
(***************************************************************************)
(* A model of the reusable logic of the cs6610 graphics exercises:         *)
(*   - common::mesh (tear_into_strips, concat_strips, validate_trig_strips)*)
(*   - common::obj_loader (ObjLoader::parse, parse_simple, parse_mtl_lib)  *)
(*   - common::glium_helper (MergedUniform, OwnedMergedUniform,            *)
(*     DynUniforms) and their use in project-05's draw calls               *)
(*   - common::math (reflect4x4)                                           *)
(*   - App::handle_keyboard of project-02 .. project-08                    *)
(*   - the event loop of every project (CloseRequested, Escape, Quit)      *)
(*   - common::asset_path                                                  *)
(*   - the cached camera of project-08 (camera.rs, scene.rs)               *)
(*   - the cameras with cached matrices of project-03, 04 and 05           *)
(*   - new_events and the periodic update of project-04 .. project-07      *)
(* Every sub-model has its own specification; the variables of the other   *)
(* sub-models stay at their idle values under it.                          *)
(***************************************************************************)
EXTENDS Integers, Sequences, FiniteSets, TLC

VARIABLES
  \* ---- common/src/mesh.rs: tear_into_strips and validate_trig_strips
  tear_pc,         \* position inside tear_into_strips
  indices,         \* the argument `indices`
  trigs,           \* BTreeSet<[u32; 3]>
  colinear_trigs,  \* BTreeMap<[u32; 2], Vec<([u32; 3], u32)>>
  strips,          \* Vec<Vec<u32>>
  strip,           \* the strip being grown
  b, c,            \* the open edge of the strip being grown
  original_trigs,  \* validate_trig_strips: sorted, rotated input triangles
  strip_trigs,     \* validate_trig_strips: sorted, rotated strip windows
  \* ---- common/src/mesh.rs: concat_strips
  cat_pc,          \* "call" before concat_strips runs, "done" after
  cat_strips,      \* the argument `strips`
  cat_indices,     \* the returned `indices`
  \* ---- common/src/obj_loader.rs: ObjLoader::parse, parse_simple, parse_mtl_lib
  obj_pc,          \* "lines" inside the loop over input.lines(), "done" after
  parser,          \* which of the three parsers runs
  input,           \* the lines of the file being read
  line_no,         \* number of lines the loop has consumed
  locals,          \* the parser's local variables, a record
  result,          \* the returned Result: Ok(..) or Err(..)
  \* ---- common/src/glium_helper.rs: MergedUniform, OwnedMergedUniform
  mu_pc,           \* "u1" / "u2": which of the two visits runs, then "done"
  mu_kind,         \* the type whose visit_values runs, or the draw that builds it
  mu_u1, mu_u2,    \* the two merged uniform sets, in their visiting order
  mu_k,            \* number of entries the running visit has handed over
  visited,         \* the HashSet `visited`
  calls,           \* the calls f(name, value) made so far
  extra_uniforms,  \* project-05: the caller's uniforms
  mtl_uniforms,    \* project-05: the uniforms of the group's material
  \* ---- common/src/glium_helper.rs: DynUniforms
  uniforms,        \* the field `uniforms`: the HashMap from names to values
  dyn_calls,       \* the calls made on the DynUniforms so far, in order
  \* ---- common/src/math.rs: reflect4x4
  refl_pc,         \* "call" before reflect4x4 runs, "built", then "done"
  point, normal,   \* the arguments of reflect4x4
  mat,             \* the Matrix4 returned, as its four columns
  vec,             \* a point the matrix is applied to
  image,           \* mat * vec, in homogeneous coordinates
  \* ---- project-02 .. project-08 main.rs: App::handle_keyboard
  project,         \* which project's binary runs, 2..8
  perspective,     \* projects 02-06: world.perspective / camera.perspective
  projection,      \* projects 07-08: scene.camera.projection
  show_axis,       \* world.show_axis
  scene,           \* projects 06-08: whether world.scene is Some
  shadow_map_visual, \* projects 07-08: scene.shadow_map_visual.0
  exit_requested,  \* Escape was pressed: exit() called or Quit sent
  key_log,         \* the key events handled so far
  settings_log,    \* the settings at the start and after each key event

  \* --- event loop (every project's main.rs): close and Escape ---
  lp_project,      \* which project's main.rs runs the loop (1..8)
  loop_state,      \* "running" until EventLoop::run / run_app returns
  exit_called,     \* event_loop.exit() / window_target.exit() was called
  user_events,     \* user events sent through the proxy, not yet delivered
  escape_pressed,  \* a pressed Escape key event was handled
  close_requested, \* a CloseRequested event was handled
  lp_events,       \* the number of window events handled so far

  \* --- common/src/lib.rs: asset_path ---
  files,           \* the paths that exist (relative to the working directory)
  ap_name,         \* the name of the last call of asset_path
  ap_result,       \* how that call ended: a returned path or a panic

  \* --- project-08 camera.rs / scene.rs: the scene camera and its cache ---
  cam,             \* scene.camera: pos, looking_at, projection, aspect, cache
  cam_op,          \* the last operation on the scene
  cam_out,         \* the matrix a read returned, None after any other operation

  \* --- project-03, 04, 05 main.rs: cameras with cached matrices ---
  vc_project,      \* which project's main.rs (3, 4 or 5)
  world_camera,    \* world.camera
  indirect_camera, \* project-05: world.indirect_scene.camera, else None
  mouse_down,      \* app.mouse_down: <<left, right>>
  modifiers,       \* app.modifiers: which of shift and control are held
  vc_op,           \* "RedrawRequested" while the frame is drawn, else "handled"

  \* --- project-04 .. project-07 main.rs: new_events and the update ---
  tm_project,      \* which project's main.rs (4..7)
  now,             \* Instant::now(), in nanoseconds since App::new
  last_update,     \* app.last_update
  control_flow,    \* the wake-up time of ControlFlow::WaitUntil, or None
  tm_window,       \* whether app.window is Some
  redraw_requested, \* window.request_redraw() was called, no redraw since
  updates,         \* the times at which the last two updates were invoked
  ups,             \* the UPS figure of the last update, None before
  tm_ticks,        \* how often the clock has advanced
  tm_op            \* the last callback

tearVars == <<tear_pc, indices, trigs, colinear_trigs, strips, strip,
              b, c, original_trigs, strip_trigs>>

catVars == <<cat_pc, cat_strips, cat_indices>>

objVars == <<obj_pc, parser, input, line_no, locals, result>>

muVars == <<mu_pc, mu_kind, mu_u1, mu_u2, mu_k, visited, calls,
            extra_uniforms, mtl_uniforms>>

dynVars == <<uniforms, dyn_calls>>

reflVars == <<refl_pc, point, normal, mat, vec, image>>

keyVars == <<project, perspective, projection, show_axis, scene,
             shadow_map_visual, exit_requested, key_log, settings_log>>

loopVars == <<lp_project, loop_state, exit_called, user_events,
              escape_pressed, close_requested, lp_events>>

assetVars == <<files, ap_name, ap_result>>

camVars == <<cam, cam_op, cam_out>>

vcVars == <<vc_project, world_camera, indirect_camera, mouse_down,
             modifiers, vc_op>>

tmVars == <<tm_project, now, last_update, control_flow, tm_window,
             redraw_requested, updates, ups, tm_ticks, tm_op>>

vars == <<tearVars, catVars, objVars, muVars, dynVars, reflVars, keyVars, loopVars, assetVars, camVars, vcVars, tmVars>>

\* what the actions of one sub-model leave alone
notTearVars == <<catVars, objVars, muVars, dynVars, reflVars, keyVars, loopVars, assetVars, camVars, vcVars, tmVars>>
notCatVars == <<tearVars, objVars, muVars, dynVars, reflVars, keyVars, loopVars, assetVars, camVars, vcVars, tmVars>>
notObjVars == <<tearVars, catVars, muVars, dynVars, reflVars, keyVars, loopVars, assetVars, camVars, vcVars, tmVars>>
notMuVars == <<tearVars, catVars, objVars, dynVars, reflVars, keyVars, loopVars, assetVars, camVars, vcVars, tmVars>>
notDynVars == <<tearVars, catVars, objVars, muVars, reflVars, keyVars, loopVars, assetVars, camVars, vcVars, tmVars>>
notReflVars == <<tearVars, catVars, objVars, muVars, dynVars, keyVars, loopVars, assetVars, camVars, vcVars, tmVars>>
notKeyVars == <<tearVars, catVars, objVars, muVars, dynVars, reflVars, loopVars, assetVars, camVars, vcVars, tmVars>>
notLoopVars == <<tearVars, catVars, objVars, muVars, dynVars, reflVars, keyVars, assetVars, camVars, vcVars, tmVars>>
notAssetVars == <<tearVars, catVars, objVars, muVars, dynVars, reflVars, keyVars, loopVars, camVars, vcVars, tmVars>>
notCamVars == <<tearVars, catVars, objVars, muVars, dynVars, reflVars, keyVars, loopVars, assetVars, vcVars, tmVars>>
notVcVars == <<tearVars, catVars, objVars, muVars, dynVars, reflVars, keyVars, loopVars, assetVars, camVars, tmVars>>
notTmVars == <<tearVars, catVars, objVars, muVars, dynVars, reflVars, keyVars, loopVars, assetVars, camVars, vcVars>>

(***************************************************************************)
(* The idle value of each sub-model's variables: what they hold under the  *)
(* specifications of the other sub-models                                  *)
(***************************************************************************)
TearIdle ==
  /\ tear_pc = "idle"
  /\ indices = <<>>
  /\ trigs = {}
  /\ colinear_trigs = <<>>
  /\ strips = <<>>
  /\ strip = <<>>
  /\ b = 0
  /\ c = 0
  /\ original_trigs = <<>>
  /\ strip_trigs = <<>>

CatIdle ==
  /\ cat_pc = "idle"
  /\ cat_strips = <<>>
  /\ cat_indices = <<>>

ObjIdle ==
  /\ obj_pc = "idle"
  /\ parser = "none"
  /\ input = <<>>
  /\ line_no = 0
  /\ locals = <<>>
  /\ result = <<>>

MuIdle ==
  /\ mu_pc = "idle"
  /\ mu_kind = "none"
  /\ mu_u1 = <<>>
  /\ mu_u2 = <<>>
  /\ mu_k = 0
  /\ visited = {}
  /\ calls = <<>>
  /\ extra_uniforms = <<>>
  /\ mtl_uniforms = <<>>

\* DynUniforms::new(), and no call made
DynIdle ==
  /\ uniforms = <<>>
  /\ dyn_calls = <<>>

ReflIdle ==
  /\ refl_pc = "idle"
  /\ point = <<0, 0, 0>>
  /\ normal = <<0, 0, 0>>
  /\ mat = <<>>
  /\ vec = <<0, 0, 0>>
  /\ image = <<>>

KeyIdle ==
  /\ project = 0
  /\ perspective = TRUE
  /\ projection = <<>>
  /\ show_axis = TRUE
  /\ scene = FALSE
  /\ shadow_map_visual = FALSE
  /\ exit_requested = FALSE
  /\ key_log = <<>>
  /\ settings_log = <<>>

LoopIdle ==
  /\ lp_project = 0
  /\ loop_state = "idle"
  /\ exit_called = FALSE
  /\ user_events = <<>>
  /\ escape_pressed = FALSE
  /\ close_requested = FALSE
  /\ lp_events = 0

AssetIdle ==
  /\ files = {}
  /\ ap_name = ""
  /\ ap_result = [kind |-> "idle", value |-> ""]

CamIdle ==
  /\ cam = <<>>
  /\ cam_op = "idle"
  /\ cam_out = <<>>

VcIdle ==
  /\ vc_project = 0
  /\ world_camera = <<>>
  /\ indirect_camera = <<>>
  /\ mouse_down = <<FALSE, FALSE>>
  /\ modifiers = [shift |-> FALSE, control |-> FALSE]
  /\ vc_op = "idle"

TmIdle ==
  /\ tm_project = 0
  /\ now = 0
  /\ last_update = 0
  /\ control_flow = <<>>
  /\ tm_window = FALSE
  /\ redraw_requested = FALSE
  /\ updates = <<>>
  /\ ups = <<>>
  /\ tm_ticks = 0
  /\ tm_op = "idle"

(***************************************************************************)
(* Bounds                                                                  *)
(***************************************************************************)
\* the size of an index list, its number of triangles plus its largest
\* vertex index, is at most MaxSize
MaxSize == 4

\* concat_strips copies indices and never compares them: two values tell a
\* copied index from its neighbours
CatVerts == {0, 1}
\* concat_strips: at most MaxStrips strips
MaxStrips == 2
\* concat_strips: strips of MinStripLen..MaxStripLen indices
MaxStripLen == 3
\* a strip starts as vec![a, b, c]
MinStripLen == 3

\* an OBJ or MTL file holds at most MaxLines lines
MaxLines == 3

\* a uniform set handed to a merge visits at most MaxUniforms entries
MaxUniforms == 2

\* at most MaxCalls calls are made on one DynUniforms
MaxCalls == 3

\* the coordinates of the points handed to reflect4x4 are whole numbers of
\* -MaxCoord..MaxCoord, which f32 arithmetic handles exactly
MaxCoord == 1

\* at most MaxKeys key events are handled in one run
MaxKeys == 3

\* at most MaxEvents window events are handled in one run of the event loop
MaxEvents == 3

\* the scene camera stays within MaxDist units of the point it looks at
MaxDist == 3

\* a resized window is at most MaxDim units wide and high
MaxDim == 2

\* the clock advances at most MaxTicks times between callbacks
MaxTicks == 3

(***************************************************************************)
(* Helpers on sequences                                                    *)
(***************************************************************************)
\* lexicographic order of arrays of integers of one length (Ord of [u32; N])
RECURSIVE LexLess(_, _)
LexLess(s, t) ==
  IF s = <<>> \/ t = <<>> THEN FALSE
  ELSE IF Head(s) # Head(t) THEN Head(s) < Head(t)
  ELSE LexLess(Tail(s), Tail(t))

\* insertion of x into the sorted sequence s
RECURSIVE InsertSorted(_, _)
InsertSorted(x, s) ==
  IF s = <<>> THEN <<x>>
  ELSE IF LexLess(Head(s), x) THEN <<Head(s)>> \o InsertSorted(x, Tail(s))
  ELSE <<x>> \o s

\* Vec::sort of a vector of arrays
RECURSIVE SortArrays(_)
SortArrays(s) == IF s = <<>> THEN <<>> ELSE InsertSorted(Head(s), SortArrays(Tail(s)))

\* slice.windows(3)
Windows3(s) ==
  IF Len(s) < 3 THEN <<>>
  ELSE [i \in 1..(Len(s) - 2) |-> <<s[i], s[i + 1], s[i + 2]>>]

\* slice.chunks(3) of a slice whose length is a multiple of 3
Chunks3(s) == [i \in 1..(Len(s) \div 3) |-> <<s[3 * i - 2], s[3 * i - 1], s[3 * i]>>]

RECURSIVE FlatSeq(_)
FlatSeq(ss) == IF ss = <<>> THEN <<>> ELSE Head(ss) \o FlatSeq(Tail(ss))

SeqRange(s) == {s[i] : i \in DOMAIN s}

(***************************************************************************)
(* common/src/mesh.rs                                                      *)
(***************************************************************************)
\* sorted([x, y])
sorted(x, y) == IF x <= y THEN <<x, y>> ELSE <<y, x>>

\* [T; 3]::rotate_left(1)
RotateLeft(a) == <<a[2], a[3], a[1]>>

\* rotate3: at most two conditional left rotations
rotate3(a) ==
  LET a1 == IF a[1] > a[2] \/ a[1] > a[3] THEN RotateLeft(a) ELSE a
  IN  IF a1[1] > a1[2] \/ a1[1] > a1[3] THEN RotateLeft(a1) ELSE a1

\* BTreeSet::pop_last: the greatest element
Last(S) == CHOOSE t \in S : \A u \in S : u = t \/ LexLess(u, t)

\* colinear_trigs.entry(key).or_default().push(item)
PushEntry(m, key, item) ==
  IF key \in DOMAIN m
    THEN [m EXCEPT ![key] = Append(@, item)]
    ELSE [k \in DOMAIN m \cup {key} |-> IF k = key THEN <<item>> ELSE m[k]]

\* one iteration of the first loop: the three edges of t
AddTrig(m, t) ==
  PushEntry(PushEntry(PushEntry(m, sorted(t[1], t[2]), <<t, t[3]>>),
                      sorted(t[2], t[3]), <<t, t[1]>>),
            sorted(t[3], t[1]), <<t, t[2]>>)

\* is the entry (t, d) kept by the filter of next_vert
NextVertFilterMut(ts, e) == TRUE
NextVertFilter(ts, e) == e[1] \in ts

\* the closure next_vert: "panic" when the key is missing (BTreeMap's Index),
\* <<>> for None, <<t, d>> for Some((t, d)): the first entry whose triangle is
\* still in trigs
next_vert(ts, m, x, y) ==
  IF sorted(x, y) \notin DOMAIN m THEN "panic"
  ELSE LET es   == m[sorted(x, y)]
           live == {i \in DOMAIN es : NextVertFilter(ts, es[i])}
       IN  IF live = {} THEN <<>>
           ELSE es[CHOOSE i \in live : \A j \in live : i <= j]

\* for trig in indices.chunks(3) { ... }: the loop from chunk number k on
RECURSIVE BuildLoop(_, _, _, _)
BuildLoop(ts, m, cs, k) ==
  IF k > Len(cs) THEN <<ts, m>>
  ELSE BuildLoop(ts \cup {cs[k]}, AddTrig(m, cs[k]), cs, k + 1)

\* the first loop of tear_into_strips, all its iterations
BuildStep ==
  /\ tear_pc = "build"
  /\ LET built == BuildLoop(trigs, colinear_trigs, Chunks3(indices), 1)
     IN  /\ trigs' = built[1]
         /\ colinear_trigs' = built[2]
  /\ tear_pc' = "pop"
  /\ UNCHANGED <<indices, strips, strip, b, c, original_trigs, strip_trigs>>
  /\ UNCHANGED notTearVars

\* while let Some([a, mut b, mut c]) = trigs.pop_last() { heuristic }
PopStep ==
  /\ tear_pc = "pop"
  /\ IF trigs = {}
       THEN /\ tear_pc' = "validate"
            /\ UNCHANGED <<trigs, strip, b, c>>
       ELSE LET t  == Last(trigs)
                ts == trigs \ {t}
                nv == next_vert(ts, colinear_trigs, t[2], t[3])
            IN  /\ trigs' = ts
                /\ IF nv = "panic"
                     THEN /\ tear_pc' = "panic"
                          /\ UNCHANGED <<strip, b, c>>
                     ELSE /\ tear_pc' = "grow"
                          /\ IF nv # <<>>
                               THEN /\ strip' = <<t[1], t[2], t[3]>>
                                    /\ b' = t[2]
                                    /\ c' = t[3]
                               ELSE /\ strip' = <<t[2], t[3], t[1]>>
                                    /\ b' = t[3]
                                    /\ c' = t[1]
  /\ UNCHANGED <<indices, colinear_trigs, strips, original_trigs,
                 strip_trigs>>
  /\ UNCHANGED notTearVars

\* loop { let Some((t, d)) = next_vert(..) else { break }; ... }
GrowStep ==
  /\ tear_pc = "grow"
  /\ LET nv == next_vert(trigs, colinear_trigs, b, c)
     IN  IF nv = "panic"
           THEN /\ tear_pc' = "panic"
                /\ UNCHANGED <<trigs, strips, strip, b, c>>
         ELSE IF nv = <<>>
           THEN /\ strips' = Append(strips, strip)
                /\ tear_pc' = "pop"
                /\ UNCHANGED <<trigs, strip, b, c>>
         ELSE /\ trigs' = trigs \ {nv[1]}
              /\ strip' = Append(strip, nv[2])
              /\ b' = c
              /\ c' = nv[2]
              /\ tear_pc' = "grow"
              /\ UNCHANGED strips
  /\ UNCHANGED <<indices, colinear_trigs, original_trigs, strip_trigs>>
  /\ UNCHANGED notTearVars

\* validate_trig_strips: original_trigs
OriginalTrigs(ix) ==
  LET cs == Chunks3(ix)
  IN  SortArrays([i \in DOMAIN cs |-> rotate3(cs[i])])

\* validate_trig_strips: strip_trigs
StripTrigs(ss) ==
  LET ws == FlatSeq([i \in DOMAIN ss |-> Windows3(ss[i])])
  IN  SortArrays([i \in DOMAIN ws |-> rotate3(ws[i])])

\* validate_trig_strips(indices, &strips); strips
ValidateStep ==
  /\ tear_pc = "validate"
  /\ original_trigs' = OriginalTrigs(indices)
  /\ strip_trigs' = StripTrigs(strips)
  /\ tear_pc' = "done"
  /\ UNCHANGED <<indices, trigs, colinear_trigs, strips, strip, b, c>>
  /\ UNCHANGED notTearVars

TearInit ==
  /\ tear_pc = "build"
  /\ \E n \in 0..MaxSize : indices \in [1..(3 * n) -> 0..(MaxSize - n)]
  /\ trigs = {}
  /\ colinear_trigs = <<>>
  /\ strips = <<>>
  /\ strip = <<>>
  /\ b = 0
  /\ c = 0
  /\ original_trigs = <<>>
  /\ strip_trigs = <<>>

TearNext == BuildStep \/ PopStep \/ GrowStep \/ ValidateStep


(***************************************************************************)
(* common/src/mesh.rs: concat_strips                                       *)
(***************************************************************************)
\* the two indices put before a strip when `indices` is not empty:
\* extend_from_within(len - 1..) and extend_from_slice(&strip[..1])
JoinMut(acc, s) ==
  IF acc # <<>> THEN <<acc[Len(acc)]>> ELSE <<>>
Join(acc, s) ==
  IF acc # <<>> THEN <<acc[Len(acc)], s[1]>> ELSE <<>>

\* for strip in strips { ... indices.extend_from_slice(strip) }
RECURSIVE ConcatLoop(_, _)
ConcatLoop(acc, ss) ==
  IF ss = <<>> THEN acc
  ELSE ConcatLoop(acc \o Join(acc, Head(ss)) \o Head(ss), Tail(ss))

concat_strips(ss) == ConcatLoop(<<>>, ss)

ConcatCall ==
  /\ cat_pc = "call"
  /\ cat_indices' = concat_strips(cat_strips)
  /\ cat_pc' = "done"
  /\ UNCHANGED cat_strips
  /\ UNCHANGED notCatVars

StripSet == UNION {[1..n -> CatVerts] : n \in MinStripLen..MaxStripLen}

CatInit ==
  /\ cat_pc = "call"
  /\ \E n \in 1..MaxStrips : cat_strips \in [1..n -> StripSet]
  /\ cat_indices = <<>>


(***************************************************************************)
(* common/src/obj_loader.rs                                                *)
(*                                                                         *)
(* A line, after line.trim(), is a record                                  *)
(*   ty   : the text before its first space ("" for an empty line),       *)
(*   sp   : whether it holds a space (split_once(' ') succeeds),           *)
(*   data : the text after the first space, trimmed, as the sequence of    *)
(*          its whitespace-separated tokens.                               *)
(* A token is a name (a string), a number (an integer, BadNum standing for *)
(* a text that is no number) or, in an `f` line, the sequence of the       *)
(* '/'-separated fields of one vertex.                                     *)
(***************************************************************************)
BadNum == -99

Line(ty, sp, data) == [ty |-> ty, sp |-> sp, data |-> data]

None == <<>>
Some(x) == <<x>>

\* Group::default()
GroupDefault == [name |-> <<"Default">>, f |-> <<>>, usemtl |-> None]

\* Mtl::default()
MtlDefault ==
  [name |-> <<"Default">>, Ns |-> 0, Ni |-> 0, d |-> 0, Tr |-> 0,
   Tf |-> <<0, 0, 0>>, illum |-> 0, Ka |-> <<0, 0, 0>>, Kd |-> <<0, 0, 0>>,
   Ks |-> <<0, 0, 0>>, Ke |-> <<0, 0, 0>>, map_Ka |-> None, map_Kd |-> None,
   map_Ks |-> None, map_bump |-> None]

\* Ok(x) and Err(e)
Ok(x) == [ok |-> TRUE, val |-> x]
Err(e) == [ok |-> FALSE, err |-> e]

\* str::parse::<f32>() of the whole text `data`
ParseF32(data) ==
  IF Len(data) = 1 /\ data[1] # BadNum THEN Ok(data[1]) ELSE Err("parse float")

\* str::parse::<u32>() of the whole text `data`
ParseU32(data) ==
  IF Len(data) = 1 /\ data[1] # BadNum /\ data[1] >= 0
    THEN Ok(data[1]) ELSE Err("parse int")

\* parse_vec3f: the first three tokens, each a number
parse_vec3f(data) ==
  IF Len(data) < 1 THEN Err("missing x")
  ELSE IF data[1] = BadNum THEN Err("parse float")
  ELSE IF Len(data) < 2 THEN Err("missing y")
  ELSE IF data[2] = BadNum THEN Err("parse float")
  ELSE IF Len(data) < 3 THEN Err("missing z")
  ELSE IF data[3] = BadNum THEN Err("parse float")
  ELSE Ok(<<data[1], data[2], data[3]>>)

\* parse_vec2f_or_vec3f: z defaults to 0.0
parse_vec2f_or_vec3f(data) ==
  IF Len(data) < 1 THEN Err("missing x")
  ELSE IF data[1] = BadNum THEN Err("parse float")
  ELSE IF Len(data) < 2 THEN Err("missing y")
  ELSE IF data[2] = BadNum THEN Err("parse float")
  ELSE IF Len(data) < 3 THEN Ok(<<data[1], data[2], 0>>)
  ELSE IF data[3] = BadNum THEN Err("parse float")
  ELSE Ok(<<data[1], data[2], data[3]>>)

\* parse_f_vertex: v/vt/vn, each a usize
parse_f_vertex(vert) ==
  IF Len(vert) < 1 THEN Err("missing v")
  ELSE IF vert[1] = BadNum \/ vert[1] < 0 THEN Err("parse int")
  ELSE IF Len(vert) < 2 THEN Err("missing vt")
  ELSE IF vert[2] = BadNum \/ vert[2] < 0 THEN Err("parse int")
  ELSE IF Len(vert) < 3 THEN Err("missing vn")
  ELSE IF vert[3] = BadNum \/ vert[3] < 0 THEN Err("parse int")
  ELSE Ok(<<vert[1], vert[2], vert[3]>>)

\* parse_f: every token of the line, the first error returned
parse_f(data) ==
  LET bad == {i \in DOMAIN data : ~parse_f_vertex(data[i]).ok}
  IN  IF bad # {}
        THEN parse_f_vertex(data[CHOOSE i \in bad : \A j \in bad : i <= j])
        ELSE Ok([i \in DOMAIN data |-> parse_f_vertex(data[i]).val])

\* line.is_empty() || line.starts_with('#')
HashTys == {"#", "#end"}
SkippedMut(l) == l.ty = ""
Skipped(l) == l.ty = "" \/ l.ty \in HashTys

\* the files beside the OBJ file: base.join(data) names one of them or none
SampleMtl ==
  <<Line("newmtl", TRUE, <<"m1">>), Line("Kd", TRUE, <<1, 0, 0>>)>>
Files == (<<"lib.mtl">> :> SampleMtl) @@ (<<"tex.png">> :> "image")

\* image::open(path)
ImageOpen(data) ==
  IF data \in DOMAIN Files /\ Files[data] = "image"
    THEN Ok(data) ELSE Err("image")

\* the locals with an error to return
Fail(st, e) == [st EXCEPT !.err = e]

\* st with field k set from the Result r, or the error of r
SetMtl(st, k, r) ==
  IF r.ok THEN [st EXCEPT !.current_mtl = [@ EXCEPT ![k] = r.val]]
  ELSE Fail(st, r.err)
SetMap(st, k, r) ==
  IF r.ok THEN [st EXCEPT !.current_mtl = [@ EXCEPT ![k] = Some(r.val)]]
  ELSE Fail(st, r.err)

\* parse_mtl_lib: the loop body for one line
MtlLine(st, l) ==
  IF Skipped(l) THEN st
  ELSE IF ~l.sp THEN Fail(st, "missing type")
  ELSE CASE l.ty = "newmtl" ->
              [st EXCEPT
                 !.mtls = IF st.current_mtl # MtlDefault
                            THEN Append(@, st.current_mtl) ELSE @,
                 !.current_mtl = [MtlDefault EXCEPT !.name = l.data]]
         [] l.ty = "Ns" -> SetMtl(st, "Ns", ParseF32(l.data))
         [] l.ty = "Ni" -> SetMtl(st, "Ni", ParseF32(l.data))
         [] l.ty = "d" -> SetMtl(st, "d", ParseF32(l.data))
         [] l.ty = "Tr" -> SetMtl(st, "Tr", ParseF32(l.data))
         [] l.ty = "Tf" -> SetMtl(st, "Tf", parse_vec3f(l.data))
         [] l.ty = "illum" -> SetMtl(st, "illum", ParseU32(l.data))
         [] l.ty = "Ka" -> SetMtl(st, "Ka", parse_vec3f(l.data))
         [] l.ty = "Kd" -> SetMtl(st, "Kd", parse_vec3f(l.data))
         [] l.ty = "Ks" -> SetMtl(st, "Ks", parse_vec3f(l.data))
         [] l.ty = "Ke" -> SetMtl(st, "Ke", parse_vec3f(l.data))
         [] l.ty = "map_Ka" -> SetMap(st, "map_Ka", ImageOpen(l.data))
         [] l.ty = "map_Kd" -> SetMap(st, "map_Kd", ImageOpen(l.data))
         [] l.ty = "map_Ks" -> SetMap(st, "map_Ks", ImageOpen(l.data))
         [] l.ty = "map_bump" -> SetMap(st, "map_bump", ImageOpen(l.data))
         [] OTHER -> st

\* parse_mtl_lib: the locals before the loop
MtlStart == [mtls |-> <<>>, current_mtl |-> MtlDefault, err |-> "none"]

\* parse_mtl_lib: after the loop
MtlEnd(st) ==
  Ok([mtls |-> IF st.current_mtl # MtlDefault
                 THEN Append(st.mtls, st.current_mtl) ELSE st.mtls])

\* parse_mtl_lib on the lines ls from line k on, as one call
RECURSIVE MtlLoop(_, _, _)
MtlLoop(st, ls, k) ==
  IF st.err # "none" THEN Err(st.err)
  ELSE IF k > Len(ls) THEN MtlEnd(st)
  ELSE MtlLoop(MtlLine(st, ls[k]), ls, k + 1)

parse_mtl_lib(ls) == MtlLoop(MtlStart, ls, 1)

\* push of a parsed value onto the vector k of the locals, or its error
PushTo(st, k, r) ==
  IF r.ok THEN [st EXCEPT ![k] = Append(@, r.val)] ELSE Fail(st, r.err)

\* parse: the "mtllib" arm
MtlLibArm(st, l) ==
  IF l.data \notin DOMAIN Files THEN Fail(st, "io")
  ELSE LET r == IF Files[l.data] = "image" THEN Err("io")
                ELSE parse_mtl_lib(Files[l.data])
       IN  IF r.ok THEN [st EXCEPT !.mtl_lib = r.val] ELSE Fail(st, r.err)

\* parse: the "g" arm
GroupArmMut(st, l) ==
  [st EXCEPT !.groups = Append(@, st.current_group),
             !.current_group = [GroupDefault EXCEPT !.name = l.data]]
GroupArm(st, l) ==
  [st EXCEPT !.groups = IF st.current_group # GroupDefault
                          THEN Append(@, st.current_group) ELSE @,
             !.current_group = [GroupDefault EXCEPT !.name = l.data]]

\* parse: the "f" arm
FaceArm(st, l) ==
  LET r == parse_f(l.data)
  IN  IF r.ok THEN [st EXCEPT !.current_group.f = Append(@, r.val)]
      ELSE Fail(st, r.err)

\* parse: the loop body for one line
ObjLine(st, l) ==
  IF Skipped(l) THEN st
  ELSE IF ~l.sp THEN Fail(st, "missing type")
  ELSE CASE l.ty = "mtllib" -> MtlLibArm(st, l)
         [] l.ty = "v" -> PushTo(st, "v", parse_vec3f(l.data))
         [] l.ty = "vn" -> PushTo(st, "vn", parse_vec3f(l.data))
         [] l.ty = "vt" -> PushTo(st, "vt", parse_vec2f_or_vec3f(l.data))
         [] l.ty = "g" -> GroupArm(st, l)
         [] l.ty = "usemtl" -> [st EXCEPT !.current_group.usemtl = Some(l.data)]
         [] l.ty = "f" -> FaceArm(st, l)
         [] OTHER -> st

\* parse: the locals before the loop
ObjStart ==
  [v |-> <<>>, vn |-> <<>>, vt |-> <<>>, groups |-> <<>>,
   current_group |-> GroupDefault, mtl_lib |-> [mtls |-> <<>>], err |-> "none"]

\* parse: after the loop
ObjEnd(st) ==
  Ok([v |-> st.v, vn |-> st.vn, vt |-> st.vt, mtl_lib |-> st.mtl_lib,
      groups |-> IF st.current_group # GroupDefault
                   THEN Append(st.groups, st.current_group) ELSE st.groups])

\* parse_simple: the loop body for one line
SimpleLine(st, l) ==
  IF Skipped(l) THEN st
  ELSE IF ~l.sp THEN Fail(st, "missing type")
  ELSE CASE l.ty = "v" -> PushTo(st, "v", parse_vec3f(l.data))
         [] l.ty = "vn" -> PushTo(st, "vn", parse_vec3f(l.data))
         [] l.ty = "vt" -> PushTo(st, "vt", parse_vec2f_or_vec3f(l.data))
         [] l.ty = "g" -> [st EXCEPT !.g = l.data]
         [] l.ty = "f" -> PushTo(st, "f", parse_f(l.data))
         [] OTHER -> st

\* parse_simple: the locals before the loop (String::new() is the empty text)
SimpleStart ==
  [v |-> <<>>, vn |-> <<>>, vt |-> <<>>, g |-> <<>>, f |-> <<>>, err |-> "none"]

\* parse_simple: after the loop
SimpleEnd(st) ==
  Ok([v |-> st.v, vn |-> st.vn, vt |-> st.vt, g |-> st.g, f |-> st.f])

\* the three parsers
LineOf(p, st, l) ==
  CASE p = "parse" -> ObjLine(st, l)
    [] p = "parse_simple" -> SimpleLine(st, l)
    [] p = "parse_mtl_lib" -> MtlLine(st, l)
StartOf(p) ==
  CASE p = "parse" -> ObjStart
    [] p = "parse_simple" -> SimpleStart
    [] p = "parse_mtl_lib" -> MtlStart
EndOf(p, st) ==
  CASE p = "parse" -> ObjEnd(st)
    [] p = "parse_simple" -> SimpleEnd(st)
    [] p = "parse_mtl_lib" -> MtlEnd(st)

\* a whole parse of the lines ls by parser p, as one call
RECURSIVE ParseLoop(_, _, _, _)
ParseLoop(p, st, ls, k) ==
  IF st.err # "none" THEN Err(st.err)
  ELSE IF k > Len(ls) THEN EndOf(p, st)
  ELSE ParseLoop(p, LineOf(p, st, ls[k]), ls, k + 1)

ParseAll(p, ls) == ParseLoop(p, StartOf(p), ls, 1)

\* one iteration of `for line in input.lines()`; `?` returns the error
ParseLine ==
  /\ obj_pc = "lines"
  /\ line_no < Len(input)
  /\ LET st == LineOf(parser, locals, input[line_no + 1])
     IN  /\ locals' = st
         /\ line_no' = line_no + 1
         /\ IF st.err # "none"
              THEN /\ result' = Err(st.err)
                   /\ obj_pc' = "done"
              ELSE UNCHANGED <<result, obj_pc>>
  /\ UNCHANGED <<parser, input>>
  /\ UNCHANGED notObjVars

\* the end of the input: the code after the loop
ParseEnd ==
  /\ obj_pc = "lines"
  /\ line_no = Len(input)
  /\ result' = EndOf(parser, locals)
  /\ obj_pc' = "done"
  /\ UNCHANGED <<parser, input, line_no, locals>>
  /\ UNCHANGED notObjVars

\* the face texts of the modelled files
FaceA == <<(<<1, 1, 1>>), (<<2, 2, 2>>), (<<3, 3, 3>>)>>
FaceB == <<(<<3, 1, 2>>), (<<2, 2, 2>>), (<<1, 3, 3>>), (<<4, 4, 4>>)>>
FaceBad == <<(<<1, 1, 1>>), (<<2, BadNum, 2>>), (<<3, 3, 3>>)>>

\* the lines an OBJ file is made of
ObjLines ==
  {Line("", FALSE, <<>>), Line("#", TRUE, <<"note">>),
   Line("s", TRUE, <<"off">>), Line("end", FALSE, <<>>),
   Line("g", TRUE, <<"Default">>), Line("g", TRUE, <<"A">>),
   Line("usemtl", TRUE, <<"m1">>), Line("usemtl", TRUE, <<"m2">>),
   Line("f", TRUE, FaceA), Line("f", TRUE, FaceB), Line("f", TRUE, FaceBad),
   Line("v", TRUE, <<1, 2, 3>>),
   Line("mtllib", TRUE, <<"lib.mtl">>), Line("mtllib", TRUE, <<"no.mtl">>)}

\* the lines an MTL file is made of
MtlLines ==
  {Line("", FALSE, <<>>), Line("#end", FALSE, <<>>),
   Line("Km", TRUE, <<1>>), Line("end", FALSE, <<>>),
   Line("newmtl", TRUE, <<"m1">>), Line("newmtl", TRUE, <<"Default">>),
   Line("Ns", TRUE, <<10>>), Line("Ns", TRUE, <<BadNum>>),
   Line("Kd", TRUE, <<1, 0, 0>>),
   Line("map_Kd", TRUE, <<"tex.png">>), Line("map_Kd", TRUE, <<"no.png">>)}

LinesOf(p) == IF p = "parse_mtl_lib" THEN MtlLines ELSE ObjLines

ObjInit ==
  /\ obj_pc = "lines"
  /\ parser \in {"parse", "parse_simple", "parse_mtl_lib"}
  /\ \E n \in 0..MaxLines : input \in [1..n -> LinesOf(parser)]
  /\ line_no = 0
  /\ locals = StartOf(parser)
  /\ result = <<>>

ObjNext == ParseLine \/ ParseEnd

(***************************************************************************)
(* common/src/glium_helper.rs: MergedUniform and OwnedMergedUniform        *)
(*                                                                         *)
(* A uniform set is the sequence of the pairs <<name, value>> its          *)
(* visit_values hands to the visitor, in that order.                       *)
(***************************************************************************)
\* HashSet::insert: whether the name was absent
InsertsNew(vis, name) == name \notin vis

\* the test of the second visit: !visited.contains(name) && visited.insert(..)
SecondFreshMut(vis, name) == TRUE
SecondFresh(vis, name) == name \notin vis /\ InsertsNew(vis, name)

\* visit_values of a merge of u1 and u2, as the sequence of the calls of f
RECURSIVE VisitLoop(_, _, _, _)
VisitLoop(u, second, vis, k) ==
  IF k > Len(u) THEN <<vis, <<>>>>
  ELSE LET name == u[k][1]
           fresh == IF second THEN SecondFresh(vis, name)
                    ELSE InsertsNew(vis, name)
           rest == VisitLoop(u, second, vis \cup {name}, k + 1)
       IN  <<rest[1], (IF fresh THEN <<u[k]>> ELSE <<>>) \o rest[2]>>

visit_values(u1, u2) ==
  LET first == VisitLoop(u1, FALSE, {}, 1)
  IN  first[2] \o VisitLoop(u2, TRUE, first[1], 1)[2]

\* the closure handed to u1.visit_values, called once
VisitU1 ==
  /\ mu_pc = "u1"
  /\ mu_k < Len(mu_u1)
  /\ LET name == mu_u1[mu_k + 1][1]
     IN  /\ visited' = visited \cup {name}
         /\ calls' = IF InsertsNew(visited, name)
                       THEN Append(calls, mu_u1[mu_k + 1]) ELSE calls
  /\ mu_k' = mu_k + 1
  /\ UNCHANGED <<mu_pc, mu_kind, mu_u1, mu_u2, extra_uniforms, mtl_uniforms>>
  /\ UNCHANGED notMuVars

\* u1.visit_values returns
EndU1 ==
  /\ mu_pc = "u1"
  /\ mu_k = Len(mu_u1)
  /\ mu_pc' = "u2"
  /\ mu_k' = 0
  /\ UNCHANGED <<mu_kind, mu_u1, mu_u2, visited, calls, extra_uniforms,
                 mtl_uniforms>>
  /\ UNCHANGED notMuVars

\* the closure handed to u2.visit_values, called once
VisitU2 ==
  /\ mu_pc = "u2"
  /\ mu_k < Len(mu_u2)
  /\ LET name == mu_u2[mu_k + 1][1]
     IN  IF SecondFresh(visited, name)
           THEN /\ visited' = visited \cup {name}
                /\ calls' = Append(calls, mu_u2[mu_k + 1])
           ELSE UNCHANGED <<visited, calls>>
  /\ mu_k' = mu_k + 1
  /\ UNCHANGED <<mu_pc, mu_kind, mu_u1, mu_u2, extra_uniforms, mtl_uniforms>>
  /\ UNCHANGED notMuVars

\* u2.visit_values returns, and with it the merge's visit_values
EndU2 ==
  /\ mu_pc = "u2"
  /\ mu_k = Len(mu_u2)
  /\ mu_pc' = "done"
  /\ UNCHANGED <<mu_kind, mu_u1, mu_u2, mu_k, visited, calls, extra_uniforms,
                 mtl_uniforms>>
  /\ UNCHANGED notMuVars

\* the names and values of the modelled uniform sets
UniformNames == {"mvp", "use_map_Kd", "tint"}
UniformValues == {1, 2}
UniformSets ==
  UNION {[1..n -> UniformNames \X UniformValues] : n \in 0..MaxUniforms}

\* project-05 object.rs: uniform! { mvp, mv, mv_n, light_pos, light_color }
ObjectUniforms ==
  <<(<<"mvp", 11>>), (<<"mv", 12>>), (<<"mv_n", 13>>), (<<"light_pos", 14>>),
    (<<"light_color", 15>>)>>

\* project-05 mesh.rs: GPUMtl::to_uniforms, with or without a texture map_Kd
MtlUniforms(map) ==
  <<(<<"Ns", 21>>), (<<"Ni", 22>>), (<<"d", 23>>), (<<"Tr", 24>>),
    (<<"Tf", 25>>), (<<"illum", 26>>), (<<"Ka", 27>>), (<<"Kd", 28>>),
    (<<"Ks", 29>>), (<<"Ke", 30>>), (<<"use_map_Ka", 0>>),
    (<<"use_map_Kd", IF map THEN 1 ELSE 0>>), (<<"use_map_Ks", 0>>),
    (<<"use_map_bump", 0>>)>>
    \o (IF map THEN <<(<<"map_Kd", 31>>)>> ELSE <<>>)

\* a HashMap is visited in an order of its own
Reverse(u) == [i \in 1..Len(u) |-> u[Len(u) + 1 - i]]

\* a merge of two uniform sets, of either type, is asked for its values
MergedInit ==
  /\ mu_kind \in {"MergedUniform", "OwnedMergedUniform"}
  /\ mu_u1 \in UniformSets
  /\ mu_u2 \in UniformSets
  /\ extra_uniforms = <<>>
  /\ mtl_uniforms = <<>>

\* project-05: GPUObject::draw_with_extra_uniforms, then GPUMesh::draw for a
\* group whose material is found (or not: mtl_uniforms empty)
DrawInit ==
  /\ mu_kind = "draw_with_extra_uniforms"
  /\ extra_uniforms \in UniformSets
  /\ mtl_uniforms \in {<<>>} \cup
       UNION {{MtlUniforms(map), Reverse(MtlUniforms(map))} : map \in BOOLEAN}
  /\ IF mtl_uniforms = <<>>
       THEN /\ mu_u1 = extra_uniforms
            /\ mu_u2 = ObjectUniforms
       ELSE /\ mu_u1 = visit_values(extra_uniforms, ObjectUniforms)
            /\ mu_u2 = mtl_uniforms

MuInit ==
  /\ mu_pc = "u1"
  /\ mu_k = 0
  /\ visited = {}
  /\ calls = <<>>
  /\ MergedInit \/ DrawInit

MuNext == VisitU1 \/ EndU1 \/ VisitU2 \/ EndU2

(***************************************************************************)
(* common/src/glium_helper.rs: DynUniforms                                 *)
(*                                                                         *)
(* A value handed to add / add_override is a number (an f32 or u32 behind  *)
(* &dyn AsUniformValue); a UniformValue is a pair of its variant and its   *)
(* payload.                                                                *)
(***************************************************************************)
\* AsUniformValue::as_uniform_value of an f32
as_uniform_value(x) == <<"Float", x>>

\* HashMap::contains_key
ContainsKeyMut(m, name) == FALSE
ContainsKey(m, name) == name \in DOMAIN m

\* HashMap::insert
Insert(m, name, value) ==
  [k \in DOMAIN m \cup {name} |-> IF k = name THEN value ELSE m[k]]

\* DynUniforms::add_raw_override
add_raw_override(m, name, value) == Insert(m, name, value)

\* DynUniforms::add_override
add_override(m, name, value) == add_raw_override(m, name, as_uniform_value(value))

\* DynUniforms::add
add(m, name, value) ==
  IF ContainsKey(m, name) THEN m ELSE add_override(m, name, value)

\* DynUniforms::add_raw
add_raw(m, name, value) ==
  IF ContainsKey(m, name) THEN m ELSE add_raw_override(m, name, value)

\* the names and values of the modelled calls
DynNames == {"Kd", "map_Kd"}
DynValues == {1, 2}
RawValues == {<<"Float", 1>>, <<"Texture2d", 1>>}

Call(op, name, value) == [op |-> op, name |-> name, value |-> value]

Add ==
  /\ Len(dyn_calls) < MaxCalls
  /\ \E name \in DynNames, value \in DynValues :
       /\ uniforms' = add(uniforms, name, value)
       /\ dyn_calls' = Append(dyn_calls, Call("add", name, value))
  /\ UNCHANGED notDynVars

AddRaw ==
  /\ Len(dyn_calls) < MaxCalls
  /\ \E name \in DynNames, value \in RawValues :
       /\ uniforms' = add_raw(uniforms, name, value)
       /\ dyn_calls' = Append(dyn_calls, Call("add_raw", name, value))
  /\ UNCHANGED notDynVars

AddOverride ==
  /\ Len(dyn_calls) < MaxCalls
  /\ \E name \in DynNames, value \in DynValues :
       /\ uniforms' = add_override(uniforms, name, value)
       /\ dyn_calls' = Append(dyn_calls, Call("add_override", name, value))
  /\ UNCHANGED notDynVars

AddRawOverride ==
  /\ Len(dyn_calls) < MaxCalls
  /\ \E name \in DynNames, value \in RawValues :
       /\ uniforms' = add_raw_override(uniforms, name, value)
       /\ dyn_calls' = Append(dyn_calls, Call("add_raw_override", name, value))
  /\ UNCHANGED notDynVars

DynNext == Add \/ AddRaw \/ AddOverride \/ AddRawOverride

(***************************************************************************)
(* common/src/math.rs: reflect4x4                                          *)
(*                                                                         *)
(* A Matrix4 built from [[f32; 4]; 4] takes each inner array as a column.  *)
(***************************************************************************)
\* cgmath: Point3::dot, Vector3::dot
Dot(u, w) == u[1] * w[1] + u[2] * w[2] + u[3] * w[3]

\* reflect4x4(point, normal)
reflect4x4(pt, n) ==
  LET x == n[1]
      y == n[2]
      z == n[3]
      d == 0 - Dot(pt, n)
  IN  <<(<<1 - 2 * x * x, 0 - 2 * x * y, 0 - 2 * x * z, 0>>),
        (<<0 - 2 * x * y, 1 - 2 * y * y, 0 - 2 * y * z, 0>>),
        (<<0 - 2 * x * z, 0 - 2 * y * z, 1 - 2 * z * z, 0>>),
        (<<2 * x * d, 2 * y * d, 2 * z * d, 1>>)>>

\* cgmath: Matrix4 * Vector4, the matrix held by columns
MulVec4(m, w) ==
  [i \in 1..4 |-> m[1][i] * w[1] + m[2][i] * w[2] + m[3][i] * w[3] + m[4][i] * w[4]]

\* Point3::to_homogeneous
Homogeneous(pt) == <<pt[1], pt[2], pt[3], 1>>

Coords == (0 - MaxCoord)..MaxCoord
Points == Coords \X Coords \X Coords

\* the unit normals whose components f32 holds exactly
UnitNormals ==
  {<<1, 0, 0>>, <<0, 1, 0>>, <<0, 0, 1>>, <<-1, 0, 0>>, <<0, -1, 0>>, <<0, 0, -1>>}

ReflInit ==
  /\ refl_pc = "call"
  /\ point \in Points
  /\ normal \in UnitNormals
  /\ mat = <<>>
  /\ vec = <<0, 0, 0>>
  /\ image = <<>>

\* the call of reflect4x4
Reflect ==
  /\ refl_pc = "call"
  /\ mat' = reflect4x4(point, normal)
  /\ refl_pc' = "built"
  /\ UNCHANGED <<point, normal, vec, image>>
  /\ UNCHANGED notReflVars

\* the matrix applied to a point
Transform ==
  /\ refl_pc = "built"
  /\ \E w \in Points :
       /\ vec' = w
       /\ image' = MulVec4(mat, Homogeneous(w))
  /\ refl_pc' = "done"
  /\ UNCHANGED <<point, normal, mat>>
  /\ UNCHANGED notReflVars

ReflNext == Reflect \/ Transform

(***************************************************************************)
(* project-02 .. project-08, main.rs: App::handle_keyboard                 *)
(*                                                                         *)
(* A key event is a record of its logical key and its state.  A Projection *)
(* is <<"Orthographic">>, <<"Perspective", fov>> or <<"Custom", matrix>>.  *)
(***************************************************************************)
Projects == 2..8

\* the projects whose camera lives in world.scene, an Option
SceneProjects == {6, 7, 8}

\* the projects whose camera holds a Projection rather than a flag
ProjectionProjects == {7, 8}

Keys == {"p", "a", "s", "Escape"}
KeyEvents == [key : Keys, state : {"Pressed", "Released"}]

\* ElementState::is_pressed
IsPressedMut(event) == TRUE
IsPressed(event) == event.state = "Pressed"

\* Camera::toggle_projection (project-07, project-08)
toggle_projection(pr) ==
  CASE pr[1] = "Orthographic" -> <<"Perspective", 90>>
    [] pr[1] = "Perspective" -> <<"Orthographic">>
    [] pr[1] = "Custom" -> <<"unreachable">>

\* `perspective ^= true`, `perspective = !perspective`, toggle_perspective
ToggleFlag(flag) == flag # TRUE

\* the settings the help text speaks of
Settings(persp, proj, axis) ==
  [perspective |-> persp, projection |-> proj, show_axis |-> axis]

\* Camera::default() of project-07 and project-08
CameraDefault == <<"Perspective", 90>>

\* World::new() and the scene set during start-up, before any key event
KeyInit ==
  /\ project \in Projects
  /\ perspective = TRUE
  /\ projection = IF project \in ProjectionProjects THEN CameraDefault ELSE <<>>
  /\ show_axis = TRUE
  /\ scene = (project \in SceneProjects)
  /\ shadow_map_visual = FALSE
  /\ exit_requested = FALSE
  /\ key_log = <<>>
  /\ settings_log = <<Settings(perspective, projection, show_axis)>>

\* the arm of the key "p"
PressP ==
  /\ IF project \in ProjectionProjects
       THEN /\ projection' = IF scene THEN toggle_projection(projection)
                             ELSE projection
            /\ UNCHANGED perspective
       ELSE /\ perspective' = IF project \in SceneProjects /\ ~scene
                                THEN perspective ELSE ToggleFlag(perspective)
            /\ UNCHANGED projection
  /\ UNCHANGED <<show_axis, exit_requested>>

\* the arm of the key "a"
PressA ==
  /\ show_axis' = ~show_axis
  /\ UNCHANGED <<perspective, projection, exit_requested>>

\* the arm of Escape: event_loop.exit() or send_event(UserSignal::Quit)
PressEscape ==
  /\ exit_requested' = TRUE
  /\ UNCHANGED <<perspective, projection, show_axis>>

\* Scene::handle_key (project-07, project-08), called after the arms
SceneHandleKey(event) ==
  IF project \in ProjectionProjects /\ scene /\ event.key = "s"
    THEN shadow_map_visual' = ~shadow_map_visual
    ELSE UNCHANGED shadow_map_visual

\* App::handle_keyboard for one key event
HandleKeyboard ==
  /\ project \in Projects
  /\ Len(key_log) < MaxKeys
  /\ \E event \in KeyEvents :
       /\ IF ~IsPressed(event)
            THEN UNCHANGED <<perspective, projection, show_axis,
                             exit_requested, shadow_map_visual>>
            ELSE /\ CASE event.key = "Escape" -> PressEscape
                      [] event.key = "p" -> PressP
                      [] event.key = "a" -> PressA
                      [] OTHER -> UNCHANGED <<perspective, projection,
                                              show_axis, exit_requested>>
                 /\ SceneHandleKey(event)
       /\ key_log' = Append(key_log, event)
       /\ settings_log' =
            Append(settings_log, Settings(perspective', projection', show_axis'))
  /\ UNCHANGED <<project, scene>>
  /\ UNCHANGED notKeyVars


(***************************************************************************)
(* The event loop of the demos: CloseRequested, Escape and UserSignal.     *)
(* Projects 01 and 04-07 implement ApplicationHandler (run_app) and call   *)
(* event_loop.exit() in the handler; projects 02, 03 and 08 run a closure  *)
(* (event_loop.run) and their Escape handler sends UserSignal::Quit        *)
(* through the EventLoopProxy, whose delivery calls window_target.exit().  *)
(* exit() only marks the loop as exiting: winit returns from run after     *)
(* the handlers of the current iteration.                                  *)
(***************************************************************************)
AllProjects == 1..8

\* the projects whose Escape handler goes through the event-loop proxy
ProxyProjects == {2, 3, 8}

UserSignals == {"Quit"}

\* project-01 compares the key only; every other project returns early
\* unless the key event is a press
EscapeHandled(p, ev) ==
  /\ ev.key = "Escape"
  /\ (p = 1 \/ IsPressed(ev))

\* handle_user_event: whether the delivered signal makes the handler call
\* window_target.exit()
handle_user_eventMut(signal) == FALSE

handle_user_event(signal) == signal = "Quit"

LoopInit ==
  /\ lp_project \in AllProjects
  /\ loop_state = "running"
  /\ exit_called = FALSE
  /\ user_events = <<>>
  /\ escape_pressed = FALSE
  /\ close_requested = FALSE
  /\ lp_events = 0

\* WindowEvent::CloseRequested => exit()
CloseRequested ==
  /\ loop_state = "running"
  /\ lp_events < MaxEvents
  /\ lp_events' = lp_events + 1
  /\ close_requested' = TRUE
  /\ exit_called' = TRUE
  /\ UNCHANGED <<lp_project, loop_state, user_events, escape_pressed>>
  /\ UNCHANGED notLoopVars

\* WindowEvent::KeyboardInput => handle_keyboard (the Escape branch; the
\* other keys leave the loop alone)
KeyboardInput ==
  /\ loop_state = "running"
  /\ lp_events < MaxEvents
  /\ lp_events' = lp_events + 1
  /\ \E ev \in KeyEvents :
       /\ escape_pressed' = (escape_pressed \/ (ev.key = "Escape" /\ IsPressed(ev)))
       /\ IF EscapeHandled(lp_project, ev)
            THEN IF lp_project \in ProxyProjects
                   THEN /\ user_events' = Append(user_events, "Quit")
                        /\ UNCHANGED exit_called
                   ELSE /\ exit_called' = TRUE
                        /\ UNCHANGED user_events
            ELSE UNCHANGED <<exit_called, user_events>>
  /\ UNCHANGED <<lp_project, loop_state, close_requested>>
  /\ UNCHANGED notLoopVars

\* every other window event (resize, redraw, mouse, ...) and the idle
\* callback: none of them calls exit or sends a user event
OtherEvent ==
  /\ loop_state = "running"
  /\ lp_events < MaxEvents
  /\ lp_events' = lp_events + 1
  /\ UNCHANGED <<lp_project, loop_state, exit_called, user_events,
                 escape_pressed, close_requested>>
  /\ UNCHANGED notLoopVars

\* Event::UserEvent(signal) => handle_user_event(signal, window_target)
UserEvent ==
  /\ loop_state = "running"
  /\ user_events # <<>>
  /\ exit_called' = (exit_called \/ handle_user_event(Head(user_events)))
  /\ user_events' = Tail(user_events)
  /\ UNCHANGED <<lp_project, loop_state, escape_pressed, close_requested,
                 lp_events>>
  /\ UNCHANGED notLoopVars

\* EventLoop::run / run_app returns once exit() has been called
LoopExit ==
  /\ loop_state = "running"
  /\ exit_called
  /\ loop_state' = "exited"
  /\ UNCHANGED <<lp_project, exit_called, user_events, escape_pressed,
                 close_requested, lp_events>>
  /\ UNCHANGED notLoopVars

LoopNext == CloseRequested \/ KeyboardInput \/ OtherEvent \/ UserEvent \/ LoopExit


(***************************************************************************)
(* common/src/lib.rs: asset_path                                           *)
(*                                                                         *)
(* A path is the string format! builds; the file system is the set of the  *)
(* paths for which Path::exists answers true.                              *)
(***************************************************************************)
\* the names the demos ask for (sphere_path, teapot_path, ...)
AssetNames == {"sphere.obj", "teapot.obj"}

\* the directories tried, in the order of the code
AssetDirsMut == <<"../assets/", "assets/", "../../assets/">>

AssetDirs == <<"assets/", "../assets/", "../../assets/">>

\* format!("<dir>{}", name)
FormatPath(dir, name) == dir \o name

AllAssetPaths ==
  {FormatPath(AssetDirs[i], name) : i \in 1..Len(AssetDirs), name \in AssetNames}

Returned(path) == [kind |-> "return", value |-> path]
Panicked(msg) == [kind |-> "panic", value |-> msg]

\* the three early returns, then panic!("Could not find {}", name)
asset_path(fs, name) ==
  IF FormatPath(AssetDirs[1], name) \in fs
    THEN Returned(FormatPath(AssetDirs[1], name))
  ELSE IF FormatPath(AssetDirs[2], name) \in fs
    THEN Returned(FormatPath(AssetDirs[2], name))
  ELSE IF FormatPath(AssetDirs[3], name) \in fs
    THEN Returned(FormatPath(AssetDirs[3], name))
  ELSE Panicked("Could not find " \o name)

AssetInit ==
  /\ files \in SUBSET AllAssetPaths
  /\ ap_name = ""
  /\ ap_result = [kind |-> "idle", value |-> ""]

\* one call of asset_path(name)
AssetPath ==
  /\ \E name \in AssetNames :
       /\ ap_name' = name
       /\ ap_result' = asset_path(files, name)
  /\ UNCHANGED files
  /\ UNCHANGED notAssetVars


(***************************************************************************)
(* project-08 camera.rs and scene.rs: the scene camera and its cache       *)
(*                                                                         *)
(* The position is kept in polar form about looking_at: rotate turns the   *)
(* direction and keeps the distance, change_distance moves along the       *)
(* direction.  The aspect ratio is the reduced fraction width / height.    *)
(* A matrix is the term that says what it was computed from, so that two   *)
(* matrices are equal when their inputs are.                               *)
(***************************************************************************)
\* directions: quarter turns about the Y axis and two elevations
Azimuths == 0..3
Elevations == 0..1

RECURSIVE Gcd(_, _)
Gcd(m, n) == IF n = 0 THEN m ELSE Gcd(n, m % n)

\* width / height
Ratio(width, height) ==
  IF width = 0 THEN <<0, 1>>
  ELSE <<width \div Gcd(width, height), height \div Gcd(width, height)>>

\* Mat4::look_at_rh(pos, looking_at, Vec3::Y)
compute_view_matrix(camera) == <<"look_at_rh", camera.pos, camera.looking_at>>

\* scale by 1 / distance times orthographic_rh_gl, perspective_rh_gl, or
\* the custom matrix
compute_projection_matrix(camera) ==
  CASE camera.projection[1] = "Orthographic" ->
         <<"scale * orthographic_rh_gl", camera.pos.dist, camera.aspect>>
    [] camera.projection[1] = "Perspective" ->
         <<"perspective_rh_gl", camera.projection[2], camera.aspect>>
    [] camera.projection[1] = "Custom" -> camera.projection[2]

compute_cache(camera) ==
  [view |-> compute_view_matrix(camera),
   projection |-> compute_projection_matrix(camera),
   view_projection |-> <<"mul", compute_projection_matrix(camera),
                         compute_view_matrix(camera)>>]

\* cache.borrow_mut().get_or_insert_with(|| self.compute_cache())
get_or_insert_with(camera) ==
  IF camera.cache = None THEN [camera EXCEPT !.cache = Some(compute_cache(camera))] ELSE camera

\* Camera::update_view: cache.borrow_mut().take()
update_viewMut(camera) == camera

update_view(camera) == [camera EXCEPT !.cache = None]

\* Camera::handle_resize
handle_resize(camera, width, height) ==
  IF height = 0 THEN camera ELSE [camera EXCEPT !.aspect = Ratio(width, height)]

\* Camera::rotate: the new position is as far from looking_at as the old
rotate(camera, dx, dy) ==
  [camera EXCEPT !.pos = [az |-> (camera.pos.az + dx) % 4,
                     el |-> (camera.pos.el + dy) % 2,
                     dist |-> camera.pos.dist]]

\* Camera::change_distance: no move past the point the camera looks at
change_distance(camera, delta) ==
  IF camera.pos.dist * (camera.pos.dist - delta) < 0
    THEN camera
    ELSE [camera EXCEPT !.pos.dist = camera.pos.dist - delta]

CamMatrices == {"view", "projection", "view_projection"}

\* Scene::new: Camera::default()
CamInit ==
  /\ cam = [pos |-> [az |-> 0, el |-> 0, dist |-> 1],
            looking_at |-> <<0, 0, 0>>,
            projection |-> CameraDefault,
            aspect |-> <<1, 1>>,
            cache |-> None]
  /\ cam_op = "new"
  /\ cam_out = None

\* Scene::handle_drag: with shift the light turns, else the camera
SceneHandleDrag ==
  /\ \E dx \in 0..1, dy \in 0..1, shift \in BOOLEAN :
       cam' = update_view(IF shift THEN cam ELSE rotate(cam, dx, dy))
  /\ cam_op' = "handle_drag"
  /\ cam_out' = None
  /\ UNCHANGED notCamVars

\* Scene::handle_resize
SceneHandleResize ==
  /\ \E width \in 0..MaxDim, height \in 0..MaxDim :
       cam' = update_view(handle_resize(cam, width, height))
  /\ cam_op' = "handle_resize"
  /\ cam_out' = None
  /\ UNCHANGED notCamVars

\* Scene::handle_scroll
SceneHandleScroll ==
  /\ \E dy \in {-1, 1, 2} :
       /\ cam.pos.dist - dy \in 1..MaxDist \/ cam.pos.dist * (cam.pos.dist - dy) < 0
       /\ cam' = update_view(change_distance(cam, dy))
  /\ cam_op' = "handle_scroll"
  /\ cam_out' = None
  /\ UNCHANGED notCamVars

\* App::handle_keyboard, the 'p' branch: toggle_projection, update_view
ScenePressP ==
  /\ cam' = update_view([cam EXCEPT !.projection = toggle_projection(cam.projection)])
  /\ cam_op' = "p"
  /\ cam_out' = None
  /\ UNCHANGED notCamVars

\* Camera::view, Camera::projection, Camera::view_projection
CamRead ==
  /\ \E which \in CamMatrices :
       /\ cam' = get_or_insert_with(cam)
       /\ cam_op' = which
       /\ cam_out' = Some(get_or_insert_with(cam).cache[1][which])
  /\ UNCHANGED notCamVars

CamNext ==
  SceneHandleDrag \/ SceneHandleResize \/ SceneHandleScroll \/ ScenePressP
    \/ CamRead


(***************************************************************************)
(* project-03, project-04, project-05 main.rs: Camera with m_view, m_proj  *)
(* and m_vp / m_view_proj, and the handlers that change it.                *)
(*                                                                         *)
(* Distance and rotation are counted in steps of the mouse; the clamp of   *)
(* the distance keeps it within 1..MaxDist steps.  A matrix is the term    *)
(* that says what it was computed from.                                    *)
(***************************************************************************)
CachedProjects == {3, 4, 5}

\* the rotation angles the model follows
Rotations == 0..1

\* Mat4::IDENTITY / Matrix4::identity()
Identity == <<"identity">>

\* new_size.0 as f32 / new_size.1 as f32
F32Div(width, height) ==
  IF height = 0
    THEN IF width = 0 THEN <<"NaN">> ELSE <<"inf">>
    ELSE Ratio(width, height)

\* Camera::new
CameraNew ==
  [aspect_ratio |-> <<1, 1>>, distance |-> 2, rotation |-> <<0, 0>>,
   perspective |-> TRUE,
   m_view |-> Identity, m_proj |-> Identity, m_view_proj |-> Identity]

\* Camera::calc_view: look_at_rh from the eye at `distance` along the
\* direction the two rotation angles give
calc_view(camera) == <<"look_at_rh", camera.rotation, camera.distance>>

\* Camera::calc_proj
calc_proj(camera) ==
  IF camera.perspective
    THEN <<"perspective", 60, camera.aspect_ratio>>
    ELSE <<"orthographic / distance", camera.aspect_ratio, camera.distance>>

\* Camera::update_view
camera_update_view(camera) ==
  [camera EXCEPT !.m_view = calc_view(camera),
                 !.m_proj = calc_proj(camera),
                 !.m_view_proj = <<"mul", calc_proj(camera), calc_view(camera)>>]

\* Camera::handle_window_resize
handle_window_resize(camera, width, height) ==
  [camera EXCEPT !.aspect_ratio = F32Div(width, height)]

\* f32::clamp
Clamp(x, lo, hi) == IF x < lo THEN lo ELSE IF x > hi THEN hi ELSE x

\* rotation[0] += dx; rotation[1] += dy
AddRotation(camera, dx, dy) ==
  [camera EXCEPT !.rotation = <<camera.rotation[1] + dx, camera.rotation[2] + dy>>]

\* distance += d; distance = distance.clamp(0.1, 10.0)
AddDistance(camera, d) ==
  [camera EXCEPT !.distance = Clamp(camera.distance + d, 1, MaxDist)]

\* project-03 has no modifiers; project-05 alone looks at shift
ControlKey == vc_project # 3 /\ modifiers.control
ShiftKey == vc_project = 5 /\ modifiers.shift

\* the left drag and the right drag of handle_cursor_moved on one camera
Dragged(camera, dx, dy) ==
  LET turned == IF mouse_down[1] /\ ~ControlKey
                  THEN AddRotation(camera, dx, dy) ELSE camera
  IN  IF mouse_down[2] THEN AddDistance(turned, dy) ELSE turned

\* App::new, then main / handle_init: World::new, load_indirect_scene
VcInit ==
  /\ vc_project \in CachedProjects
  /\ world_camera = CameraNew
  /\ indirect_camera = IF vc_project = 5 THEN Some(CameraNew) ELSE None
  /\ mouse_down = <<FALSE, FALSE>>
  /\ modifiers = [shift |-> FALSE, control |-> FALSE]
  /\ vc_op = "init"

\* App::handle_resize
VcResized ==
  /\ \E width \in 0..MaxDim, height \in 0..MaxDim :
       world_camera' =
         camera_update_view(handle_window_resize(world_camera, width, height))
  /\ vc_op' = "handled"
  /\ UNCHANGED <<vc_project, indirect_camera, mouse_down, modifiers>>
  /\ UNCHANGED notVcVars

\* App::handle_keyboard, the 'p' branch
VcPressP ==
  /\ world_camera' =
       camera_update_view([world_camera EXCEPT
                             !.perspective = ToggleFlag(world_camera.perspective)])
  /\ vc_op' = "handled"
  /\ UNCHANGED <<vc_project, indirect_camera, mouse_down, modifiers>>
  /\ UNCHANGED notVcVars

\* App::handle_mouse_input
VcMouseInput ==
  /\ \E button \in {"Left", "Right", "Middle"}, pressed \in BOOLEAN :
       mouse_down' =
         CASE button = "Left" -> <<pressed, mouse_down[2]>>
           [] button = "Right" -> <<mouse_down[1], pressed>>
           [] OTHER -> mouse_down
  /\ vc_op' = "handled"
  /\ UNCHANGED <<vc_project, world_camera, indirect_camera, modifiers>>
  /\ UNCHANGED notVcVars

\* WindowEvent::ModifiersChanged
VcModifiersChanged ==
  /\ modifiers' \in [shift : BOOLEAN, control : BOOLEAN]
  /\ vc_op' = "handled"
  /\ UNCHANGED <<vc_project, world_camera, indirect_camera, mouse_down>>
  /\ UNCHANGED notVcVars

\* App::handle_cursor_moved: projects 03 and 04 update the view in the
\* branches that change the camera; project-05 changes the camera shift
\* chooses and updates both views
VcCursorMoved ==
  /\ \E dx \in {-1, 0, 1}, dy \in {-1, 0, 1} :
       IF vc_project = 5
         THEN LET target == IF ShiftKey THEN indirect_camera[1] ELSE world_camera
              IN  /\ Dragged(target, dx, dy).rotation \in Rotations \X Rotations
                  /\ indirect_camera' =
                       Some(camera_update_view(
                              IF ShiftKey THEN Dragged(target, dx, dy)
                                          ELSE indirect_camera[1]))
                  /\ world_camera' =
                       camera_update_view(
                         IF ShiftKey THEN world_camera
                                     ELSE Dragged(target, dx, dy))
         ELSE /\ Dragged(world_camera, dx, dy).rotation \in Rotations \X Rotations
              /\ world_camera' =
                   IF (mouse_down[1] /\ ~ControlKey) \/ mouse_down[2]
                     THEN camera_update_view(Dragged(world_camera, dx, dy))
                     ELSE world_camera
              /\ UNCHANGED indirect_camera
  /\ vc_op' = "handled"
  /\ UNCHANGED <<vc_project, mouse_down, modifiers>>
  /\ UNCHANGED notVcVars

\* App::handle_mouse_wheel
VcMouseWheel ==
  /\ \E d \in {-1, 1} :
       IF vc_project = 5
         THEN /\ indirect_camera' =
                   Some(camera_update_view(
                          IF ShiftKey THEN AddDistance(indirect_camera[1], -d)
                                      ELSE indirect_camera[1]))
              /\ world_camera' =
                   camera_update_view(
                     IF ShiftKey THEN world_camera
                                 ELSE AddDistance(world_camera, -d))
         ELSE /\ world_camera' = camera_update_view(AddDistance(world_camera, -d))
              /\ UNCHANGED indirect_camera
  /\ vc_op' = "handled"
  /\ UNCHANGED <<vc_project, mouse_down, modifiers>>
  /\ UNCHANGED notVcVars

\* App::handle_redraw: World::render reads the cached matrices
VcRedrawRequested ==
  /\ vc_op' = "RedrawRequested"
  /\ UNCHANGED <<vc_project, world_camera, indirect_camera, mouse_down, modifiers>>
  /\ UNCHANGED notVcVars

VcNext ==
  VcResized \/ VcPressP \/ VcMouseInput \/ VcModifiersChanged
    \/ VcCursorMoved \/ VcMouseWheel \/ VcRedrawRequested


(***************************************************************************)
(* project-04 .. project-07 main.rs: App::new_events and the periodic      *)
(* update (handle_idle in project-04, update in the others).               *)
(*                                                                         *)
(* Instant is monotonic: time is a number of nanoseconds that only grows,  *)
(* between callbacks and between two reads of the clock in one callback.   *)
(***************************************************************************)
TimedProjects == 4..7

TARGET_UPS == 60

\* Duration::from_micros(1_000_000 / TARGET_UPS as u64), in nanoseconds
TARGET_FRAME_TIME == (1000000 \div TARGET_UPS) * 1000

\* by how much the clock advances between two callbacks
Delays == {0, 1, TARGET_FRAME_TIME - 1, TARGET_FRAME_TIME}

\* by how much it advances between two reads inside the update
HandlerDelays == {0, 1}

\* the test of new_events: `>=` in project-04, `>` in the others
FrameElapsedMut(p, elapsed) == TRUE

FrameElapsed(p, elapsed) ==
  IF p = 4 THEN elapsed >= TARGET_FRAME_TIME ELSE elapsed > TARGET_FRAME_TIME

\* the figure of the window title: u128 division in projects 04 and 05,
\* f32 division of the seconds in projects 06 and 07
UpsFigure(p, nanos) ==
  IF p \in {4, 5}
    THEN IF nanos = 0 THEN <<"panic", "attempt to divide by zero">>
         ELSE <<"u128", 1000000000 \div nanos>>
    ELSE IF nanos = 0 THEN <<"f32", "inf">>
         ELSE <<"f32", 1000000000, nanos>>

\* the last two entries of a log
LastTwo(log) == IF Len(log) <= 2 THEN log ELSE SubSeq(log, Len(log) - 1, Len(log))

\* App::new: last_update = Instant::now(), window = None
TmInit ==
  /\ tm_project \in TimedProjects
  /\ now = 0
  /\ last_update = 0
  /\ control_flow = None
  /\ tm_window = FALSE
  /\ redraw_requested = FALSE
  /\ updates = <<>>
  /\ ups = None
  /\ tm_ticks = 0
  /\ tm_op = "new"

\* time passes between two callbacks
TmTick ==
  /\ tm_ticks < MaxTicks
  /\ tm_ticks' = tm_ticks + 1
  /\ \E d \in Delays : now' = now + d
  /\ tm_op' = "wait"
  /\ UNCHANGED <<tm_project, last_update, control_flow, tm_window,
                 redraw_requested, updates, ups>>
  /\ UNCHANGED notTmVars

\* ApplicationHandler::resumed: the window is created and handle_init run
TmResumed ==
  /\ ~tm_window
  /\ tm_window' = TRUE
  /\ tm_op' = "resumed"
  /\ UNCHANGED <<tm_project, now, last_update, control_flow,
                 redraw_requested, updates, ups, tm_ticks>>
  /\ UNCHANGED notTmVars

\* ApplicationHandler::new_events: set_control_flow, then the update when
\* the frame time has elapsed.  The update reads the clock for the figure
\* of the title (d1 after the test) and again for last_update (d2 later).
TmNewEvents ==
  /\ control_flow' = Some(last_update + TARGET_FRAME_TIME)
  /\ IF FrameElapsed(tm_project, now - last_update)
       THEN \E d1 \in HandlerDelays, d2 \in HandlerDelays :
              /\ ups' = Some(UpsFigure(tm_project, (now + d1) - last_update))
              /\ redraw_requested' = (redraw_requested \/ tm_window)
              /\ now' = now + d1 + d2
              /\ last_update' = now + d1 + d2
              /\ updates' = LastTwo(Append(updates, now))
       ELSE UNCHANGED <<now, last_update, redraw_requested, updates, ups>>
  /\ tm_op' = "new_events"
  /\ UNCHANGED <<tm_project, tm_window, tm_ticks>>
  /\ UNCHANGED notTmVars

\* WindowEvent::RedrawRequested: handle_redraw draws the frame
TmRedrawRequested ==
  /\ tm_window
  /\ redraw_requested
  /\ redraw_requested' = FALSE
  /\ tm_op' = "RedrawRequested"
  /\ UNCHANGED <<tm_project, now, last_update, control_flow, tm_window,
                 updates, ups, tm_ticks>>
  /\ UNCHANGED notTmVars

TmNext == TmTick \/ TmResumed \/ TmNewEvents \/ TmRedrawRequested

(***************************************************************************)
(* Specifications                                                          *)
(***************************************************************************)
InitTear ==
  TearInit /\ CatIdle /\ ObjIdle /\ MuIdle /\ DynIdle
    /\ ReflIdle /\ KeyIdle /\ LoopIdle /\ AssetIdle /\ CamIdle
    /\ VcIdle /\ TmIdle
SpecTear == InitTear /\ [][TearNext]_vars

InitConcat ==
  CatInit /\ TearIdle /\ ObjIdle /\ MuIdle /\ DynIdle
    /\ ReflIdle /\ KeyIdle /\ LoopIdle /\ AssetIdle /\ CamIdle
    /\ VcIdle /\ TmIdle
SpecConcat == InitConcat /\ [][ConcatCall]_vars

InitObj ==
  ObjInit /\ TearIdle /\ CatIdle /\ MuIdle /\ DynIdle
    /\ ReflIdle /\ KeyIdle /\ LoopIdle /\ AssetIdle /\ CamIdle
    /\ VcIdle /\ TmIdle
SpecObj == InitObj /\ [][ObjNext]_vars

InitMerged ==
  MuInit /\ TearIdle /\ CatIdle /\ ObjIdle /\ DynIdle
    /\ ReflIdle /\ KeyIdle /\ LoopIdle /\ AssetIdle /\ CamIdle
    /\ VcIdle /\ TmIdle
SpecMerged == InitMerged /\ [][MuNext]_vars

InitDyn ==
  DynIdle /\ TearIdle /\ CatIdle /\ ObjIdle /\ MuIdle
    /\ ReflIdle /\ KeyIdle /\ LoopIdle /\ AssetIdle /\ CamIdle
    /\ VcIdle /\ TmIdle
SpecDyn == InitDyn /\ [][DynNext]_vars

InitReflect ==
  ReflInit /\ TearIdle /\ CatIdle /\ ObjIdle /\ MuIdle
    /\ DynIdle /\ KeyIdle /\ LoopIdle /\ AssetIdle /\ CamIdle
    /\ VcIdle /\ TmIdle
SpecReflect == InitReflect /\ [][ReflNext]_vars

InitKeys ==
  KeyInit /\ TearIdle /\ CatIdle /\ ObjIdle /\ MuIdle
    /\ DynIdle /\ ReflIdle /\ LoopIdle /\ AssetIdle /\ CamIdle
    /\ VcIdle /\ TmIdle
SpecKeys == InitKeys /\ [][HandleKeyboard]_vars

InitLoop ==
  LoopInit /\ TearIdle /\ CatIdle /\ ObjIdle /\ MuIdle
    /\ DynIdle /\ ReflIdle /\ KeyIdle /\ AssetIdle /\ CamIdle
    /\ VcIdle /\ TmIdle
\* winit delivers every user event sent through the proxy while the loop
\* runs, and returns from run / run_app once exit() has been called
SpecLoop == InitLoop /\ [][LoopNext]_vars /\ WF_vars(UserEvent) /\ WF_vars(LoopExit)

InitAsset ==
  AssetInit /\ TearIdle /\ CatIdle /\ ObjIdle /\ MuIdle
    /\ DynIdle /\ ReflIdle /\ KeyIdle /\ LoopIdle /\ CamIdle
    /\ VcIdle /\ TmIdle
SpecAsset == InitAsset /\ [][AssetPath]_vars

InitCam ==
  CamInit /\ TearIdle /\ CatIdle /\ ObjIdle /\ MuIdle
    /\ DynIdle /\ ReflIdle /\ KeyIdle /\ LoopIdle /\ AssetIdle
    /\ VcIdle /\ TmIdle
SpecCam == InitCam /\ [][CamNext]_vars

InitVc ==
  VcInit /\ TearIdle /\ CatIdle /\ ObjIdle /\ MuIdle
    /\ DynIdle /\ ReflIdle /\ KeyIdle /\ LoopIdle /\ AssetIdle
    /\ CamIdle /\ TmIdle
SpecVc == InitVc /\ [][VcNext]_vars

InitTm ==
  TmInit /\ TearIdle /\ CatIdle /\ ObjIdle /\ MuIdle
    /\ DynIdle /\ ReflIdle /\ KeyIdle /\ LoopIdle /\ AssetIdle
    /\ CamIdle /\ VcIdle
SpecTm == InitTm /\ [][TmNext]_vars

(***************************************************************************)
(* Claims about tear_into_strips                                           *)
(***************************************************************************)
\* the distinct ordered triples of the input
InputTrigs == SeqRange(Chunks3(indices))

\* the 3-index windows of all strips, in order
AllWindows(ss) == FlatSeq([i \in DOMAIN ss |-> Windows3(ss[i])])

\* the number of 3-index windows of the strips: the sum of len - 2
RECURSIVE WindowCount(_)
WindowCount(ss) ==
  IF ss = <<>> THEN 0 ELSE (Len(Head(ss)) - 2) + WindowCount(Tail(ss))

\* [a, b, c] with its entries in ascending order: the vertex multiset
Sorted3(t) == SortArrays(<<(<<t[1]>>), (<<t[2]>>), (<<t[3]>>)>>)

\* C1: when tear_into_strips has returned, the two lists validate_trig_strips
\* computes are equal: the sorted rotate3-normalised input triangles and the
\* sorted rotate3-normalised windows of the returned strips
C1_ValidateHolds ==
  tear_pc = "done" => original_trigs = strip_trigs

\* C2: tear_into_strips never panics; while it runs, the triangles still in
\* trigs plus the windows emitted so far number the distinct input triples (so
\* both loops end); when it has returned every strip has length >= 3, the
\* windows number the distinct input triples, and for every vertex multiset as
\* many windows as distinct input triples have it (a one-to-one matching of
\* windows and distinct triples with equal vertex multisets exists)
C2_NoTriangleLost ==
  /\ tear_pc # "panic"
  /\ tear_pc \in {"pop", "validate", "done"} =>
       WindowCount(strips) + Cardinality(trigs) = Cardinality(InputTrigs)
  /\ tear_pc = "grow" =>
       WindowCount(strips) + (Len(strip) - 2) + Cardinality(trigs)
         = Cardinality(InputTrigs)
  /\ tear_pc = "done" =>
       /\ trigs = {}
       /\ \A i \in DOMAIN strips : Len(strips[i]) >= 3
       /\ LET ws == AllWindows(strips)
              in == InputTrigs
          IN  \A k \in {Sorted3(t) : t \in in} \cup
                       {Sorted3(ws[i]) : i \in DOMAIN ws} :
                Cardinality({i \in DOMAIN ws : Sorted3(ws[i]) = k})
                  = Cardinality({t \in in : Sorted3(t) = k})

\* C2 witness: a returned strip of two triangles, from an input that holds a
\* repeated or a degenerate triangle
C2_Witness ==
  /\ tear_pc = "done"
  /\ \E i \in DOMAIN strips : Len(strips[i]) >= 4
  /\ Len(indices) = 6
  /\ \E t \in InputTrigs : t[1] = t[2] \/ t[2] = t[3] \/ t[1] = t[3]

(***************************************************************************)
(* Claims about concat_strips                                              *)
(***************************************************************************)
RECURSIVE SumLen(_)
SumLen(ss) == IF ss = <<>> THEN 0 ELSE Len(Head(ss)) + SumLen(Tail(ss))

\* where strip j starts in the output when every join adds two indices
CatStart(ss, j) == 1 + SumLen(SubSeq(ss, 1, j - 1)) + 2 * (j - 1)

\* C3: the output of concat_strips holds the strips in their order, strip j
\* at CatStart(j); the two positions before strip j > 1 (the join positions)
\* hold a copy of the index before them (the last one emitted so far) and a
\* copy of the first index of strip j; its length is the sum of the strip
\* lengths plus 2*(n-1); every window that covers a join position has two
\* equal neighbours one of which is a join position; the other windows, in
\* order, are the windows of the strips
C3_ConcatJoins ==
  cat_pc = "done" =>
    LET n     == Len(cat_strips)
        out   == cat_indices
        start == [j \in 1..n |-> CatStart(cat_strips, j)]
        joins == UNION {{start[j] - 2, start[j] - 1} : j \in 2..n}
        free  == {w \in 1..(Len(out) - 2) : {w, w + 1, w + 2} \cap joins = {}}
        RECURSIVE Pick(_)
        Pick(w) == IF w > Len(out) - 2 THEN <<>>
                   ELSE (IF w \in free THEN <<(<<out[w], out[w + 1], out[w + 2]>>)>>
                                       ELSE <<>>) \o Pick(w + 1)
    IN  /\ Len(out) = SumLen(cat_strips) + 2 * (n - 1)
        /\ \A j \in 1..n :
             \A k \in 1..Len(cat_strips[j]) :
               out[start[j] + k - 1] = cat_strips[j][k]
        /\ \A j \in 2..n :
             /\ out[start[j] - 2] = out[start[j] - 3]
             /\ out[start[j] - 2] = cat_strips[j - 1][Len(cat_strips[j - 1])]
             /\ out[start[j] - 1] = cat_strips[j][1]
        /\ \A w \in 1..(Len(out) - 2) :
             w \notin free =>
               \E k \in {w, w + 1} :
                 /\ out[k] = out[k + 1]
                 /\ {k, k + 1} \cap joins # {}
        /\ Pick(1) = AllWindows(cat_strips)

\* C3 witness: two strips joined, the first ending in another
\* index than the second starts with
C3_Witness ==
  /\ cat_pc = "done"
  /\ Len(cat_strips) >= 2
  /\ cat_strips[1][Len(cat_strips[1])] # cat_strips[2][1]
  /\ Len(cat_indices) > SumLen(cat_strips)

(***************************************************************************)
(* Claims about ObjLoader::parse, parse_simple and parse_mtl_lib           *)
(***************************************************************************)
\* the positions of the lines of ls with keyword kw, in file order
RECURSIVE KwPositions(_, _, _)
KwPositions(ls, kw, k) ==
  IF k > Len(ls) THEN <<>>
  ELSE (IF ls[k].ty = kw /\ ls[k].sp THEN <<k>> ELSE <<>>)
         \o KwPositions(ls, kw, k + 1)

\* the position of the nearest line with keyword kw before position p, or 0
NearestBefore(ls, kw, p) ==
  LET qs == {q \in 1..(p - 1) : ls[q].ty = kw /\ ls[q].sp}
  IN  IF qs = {} THEN 0 ELSE CHOOSE q \in qs : \A r \in qs : r <= q

\* the faces of the groups gs, concatenated in group order
RECURSIVE FlatFaces(_)
FlatFaces(gs) ==
  IF gs = <<>> THEN <<>> ELSE Head(gs).f \o FlatFaces(Tail(gs))

\* for each face of FlatFaces(gs), the field k of the group that holds it
RECURSIVE FlatField(_, _)
FlatField(gs, k) ==
  IF gs = <<>> THEN <<>>
  ELSE [i \in 1..Len(Head(gs).f) |-> Head(gs)[k]] \o FlatField(Tail(gs), k)

\* the name of the group opened at position q of ls (0: before any `g` line)
OpenedName(ls, q) == IF q = 0 THEN <<"Default">> ELSE ls[q].data

\* the group the file ls describes from position q (0 or a `g` line) on
Segment(ls, q) ==
  LET fs == KwPositions(ls, "f", 1)
      mine == SelectSeq(fs, LAMBDA p : NearestBefore(ls, "g", p) = q)
  IN  [name |-> OpenedName(ls, q),
       f |-> [i \in 1..Len(mine) |-> parse_f(ls[mine[i]].data).val],
       mtl |-> \E p \in DOMAIN ls :
                 /\ ls[p].ty = "usemtl" /\ ls[p].sp
                 /\ NearestBefore(ls, "g", p) = q]

\* name and faces of a group
NameAndFaces(g) == [name |-> g.name, f |-> g.f]

\* C4: whenever ObjLoader::parse succeeds, the faces of the returned groups,
\* concatenated in group order, are the faces of the file's `f` lines in file
\* order; each face is in the group opened by the nearest preceding `g` line,
\* or in a group named "Default" when none precedes it; the groups are, in file
\* order, the groups the file describes, one being left out only when it has
\* the name "Default", no faces and no usemtl.
C4_GroupsAndFaces ==
  (obj_pc = "done" /\ parser = "parse" /\ result.ok) =>
    LET gs == result.val.groups
        fs == KwPositions(input, "f", 1)
        segs == [i \in 1..(1 + Len(KwPositions(input, "g", 1))) |->
                   Segment(input, (<<0>> \o KwPositions(input, "g", 1))[i])]
        kept == SelectSeq(segs, LAMBDA sg :
                  ~(sg.name = <<"Default">> /\ sg.f = <<>> /\ ~sg.mtl))
    IN  /\ FlatFaces(gs) = [i \in 1..Len(fs) |-> parse_f(input[fs[i]].data).val]
        /\ FlatField(gs, "name") =
             [i \in 1..Len(fs) |->
                OpenedName(input, NearestBefore(input, "g", fs[i]))]
        /\ [i \in 1..Len(gs) |-> NameAndFaces(gs[i])] =
             [i \in 1..Len(kept) |-> NameAndFaces(kept[i])]

\* a file with a face before and a face after its `g` line
C4_Witness ==
  /\ obj_pc = "done" /\ parser = "parse" /\ result.ok
  /\ Len(result.val.groups) = 2
  /\ \A i \in 1..2 : Len(result.val.groups[i].f) = 1
  /\ result.val.groups[1].f # result.val.groups[2].f

\* the keywords each parser recognises
Recognised(p) ==
  CASE p = "parse" -> {"mtllib", "v", "vn", "vt", "g", "usemtl", "f"}
    [] p = "parse_simple" -> {"v", "vn", "vt", "g", "f"}
    [] p = "parse_mtl_lib" ->
         {"newmtl", "Ns", "Ni", "d", "Tr", "Tf", "illum", "Ka", "Kd", "Ks",
          "Ke", "map_Ka", "map_Kd", "map_Ks", "map_bump"}

\* an empty line, or a line starting with '#'
EmptyOrComment(l) == l.ty = "" \/ l.ty \in HashTys

\* the lines of ls that Drop(_) does not hold of
Without(ls, Drop(_)) == SelectSeq(ls, LAMBDA l : ~Drop(l))

C6_FaceMaterial ==
  (obj_pc = "done" /\ parser = "parse" /\ result.ok) =>
    LET fs == KwPositions(input, "f", 1)
        near == [i \in 1..Len(fs) |-> NearestBefore(input, "usemtl", fs[i])]
    IN  FlatField(result.val.groups, "usemtl") =
          [i \in 1..Len(fs) |->
             IF near[i] = 0 THEN None ELSE Some(input[near[i]].data)]

(***************************************************************************)
(* Claims about MergedUniform and OwnedMergedUniform                       *)
(***************************************************************************)
\* the names a uniform set visits, and the values it visits for a name
NamesOf(u) == {u[i][1] : i \in DOMAIN u}
ValuesOf(u, name) == {u[i][2] : i \in {j \in DOMAIN u : u[j][1] = name}}

\* C7: visit_values of a merge of (u1, u2) calls the visitor exactly once for
\* every name occurring in u1 or u2 and for no other name; for a name of u1
\* the value passed is u1's, also when u2 has the name; in project-05 a
\* uniform of the caller of draw_with_extra_uniforms goes before the object's
\* uniform of that name, which goes before the material's.
C7_MergedPrecedence ==
  mu_pc = "done" =>
    /\ \A i, j \in DOMAIN calls : calls[i][1] = calls[j][1] => i = j
    /\ NamesOf(calls) = NamesOf(mu_u1) \cup NamesOf(mu_u2)
    /\ \A i \in DOMAIN calls :
         LET name == calls[i][1]
         IN  calls[i][2] \in IF name \in NamesOf(mu_u1)
                               THEN ValuesOf(mu_u1, name)
                               ELSE ValuesOf(mu_u2, name)
    /\ mu_kind = "draw_with_extra_uniforms" =>
         /\ NamesOf(calls) = NamesOf(extra_uniforms) \cup NamesOf(ObjectUniforms)
                               \cup NamesOf(mtl_uniforms)
         /\ \A i \in DOMAIN calls :
              LET name == calls[i][1]
              IN  calls[i][2] \in
                    IF name \in NamesOf(extra_uniforms)
                      THEN ValuesOf(extra_uniforms, name)
                    ELSE IF name \in NamesOf(ObjectUniforms)
                      THEN ValuesOf(ObjectUniforms, name)
                    ELSE ValuesOf(mtl_uniforms, name)

\* a finished visit of a merge whose two sets give one name different values
C7_Witness ==
  /\ mu_pc = "done"
  /\ mu_kind = "MergedUniform"
  /\ \E name \in NamesOf(mu_u1) \cap NamesOf(mu_u2) :
       ValuesOf(mu_u1, name) \cap ValuesOf(mu_u2, name) = {}
  /\ NamesOf(mu_u2) \ NamesOf(mu_u1) # {}

(***************************************************************************)
(* Claims about DynUniforms                                                *)
(***************************************************************************)
\* the UniformValue a call hands over
CallValue(call) ==
  IF call.op \in {"add", "add_override"}
    THEN as_uniform_value(call.value) ELSE call.value

\* the positions in dyn_calls of the calls for `name` with an operation of ops
CallsFor(name, ops) ==
  {i \in DOMAIN dyn_calls : dyn_calls[i].name = name /\ dyn_calls[i].op \in ops}

\* C8: add and add_raw insert a value only when the name is absent and
\* otherwise leave the whole map unchanged; add_override and add_raw_override
\* always replace the value; hence after any sequence of these calls the value
\* stored for a name is that of the last override call for it or, without an
\* override call for it, that of the first add / add_raw call for it.
C8_DynUniforms ==
  /\ [][dyn_calls' # dyn_calls =>
          LET call == dyn_calls'[Len(dyn_calls')]
              others == DOMAIN uniforms \ {call.name}
          IN  /\ DOMAIN uniforms' = DOMAIN uniforms \cup {call.name}
              /\ \A k \in others : uniforms'[k] = uniforms[k]
              /\ IF call.op \in {"add", "add_raw"} /\ call.name \in DOMAIN uniforms
                   THEN uniforms' = uniforms
                   ELSE uniforms'[call.name] = CallValue(call)]_vars
  /\ [](\A name \in DynNames :
          LET over == CallsFor(name, {"add_override", "add_raw_override"})
              adds == CallsFor(name, {"add", "add_raw"})
          IN  IF over # {}
                THEN /\ name \in DOMAIN uniforms
                     /\ uniforms[name] =
                          CallValue(dyn_calls[CHOOSE i \in over : \A j \in over : j <= i])
              ELSE IF adds # {}
                THEN /\ name \in DOMAIN uniforms
                     /\ uniforms[name] =
                          CallValue(dyn_calls[CHOOSE i \in adds : \A j \in adds : i <= j])
              ELSE name \notin DOMAIN uniforms)

\* an add after an add for the same name, and an add_raw after an override of
\* another name, each with a value other than the stored one
C8_Witness ==
  /\ Len(dyn_calls) = MaxCalls
  /\ \E i, j \in DOMAIN dyn_calls :
       /\ i < j
       /\ dyn_calls[i].name = dyn_calls[j].name
       /\ dyn_calls[i].op \in {"add_override", "add_raw_override"}
       /\ dyn_calls[j].op \in {"add", "add_raw"}
       /\ CallValue(dyn_calls[i]) # CallValue(dyn_calls[j])
       /\ uniforms[dyn_calls[i].name] = CallValue(dyn_calls[i])

(***************************************************************************)
(* Claims about reflect4x4                                                 *)
(***************************************************************************)
\* C9: for a unit normal, reflect4x4(point, normal) is the reflection across
\* the plane through `point` with that normal: a point of that plane, `point`
\* among them, is mapped to itself, and point + t*normal to point - t*normal.
C9_ReflectsThroughPoint ==
  refl_pc = "done" =>
    LET off == <<vec[1] - point[1], vec[2] - point[2], vec[3] - point[3]>>
        t == Dot(off, normal)
    IN  /\ t = 0 => image = Homogeneous(vec)
        /\ off = <<t * normal[1], t * normal[2], t * normal[3]>> =>
             image = Homogeneous(<<point[1] - t * normal[1],
                                   point[2] - t * normal[2],
                                   point[3] - t * normal[3]>>)

(***************************************************************************)
(* Claims about App::handle_keyboard                                       *)
(***************************************************************************)
\* whether the camera of the settings st projects in perspective
Perspective(st) ==
  IF project \in ProjectionProjects
    THEN st.projection[1] = "Perspective" ELSE st.perspective

\* what the key "p" is to toggle, and what the key "a" is to toggle
CameraOf(st) == [perspective |-> st.perspective, projection |-> st.projection]

\* the events i < j of key_log are presses of `key`, with no press of it between
NextPress(key, i, j) ==
  /\ i < j
  /\ key_log[i] = [key |-> key, state |-> "Pressed"]
  /\ key_log[j] = key_log[i]
  /\ \A k \in (i + 1)..(j - 1) : key_log[k] # key_log[i]

\* C10: in projects 02-08 every press of 'p' flips the camera between
\* perspective and orthographic projection and leaves show_axis alone, every
\* press of 'a' flips show_axis and leaves the camera alone, the second of two
\* presses of the same key restores what the first changed, and a key release
\* changes neither.
C10_KeyToggles ==
  project \in Projects =>
    /\ \A i \in DOMAIN key_log :
         LET before == settings_log[i]
             after == settings_log[i + 1]
         IN  /\ key_log[i] = [key |-> "p", state |-> "Pressed"] =>
                  /\ Perspective(after) = ~Perspective(before)
                  /\ after.show_axis = before.show_axis
             /\ key_log[i] = [key |-> "a", state |-> "Pressed"] =>
                  /\ after.show_axis = ~before.show_axis
                  /\ CameraOf(after) = CameraOf(before)
             /\ key_log[i].state = "Released" => after = before
    /\ \A i, j \in DOMAIN key_log :
         /\ NextPress("p", i, j) =>
              CameraOf(settings_log[j + 1]) = CameraOf(settings_log[i])
         /\ NextPress("a", i, j) =>
              settings_log[j + 1].show_axis = settings_log[i].show_axis

\* 'p' pressed, 'a' pressed, 'p' pressed again, in a project whose camera
\* holds a Projection
C10_Witness ==
  /\ project \in ProjectionProjects
  /\ Len(key_log) = 3
  /\ NextPress("p", 1, 3)
  /\ key_log[2] = [key |-> "a", state |-> "Pressed"]
  /\ ~show_axis
  /\ projection = CameraDefault

(***************************************************************************)
(* C11: in every project a CloseRequested event or a press of Escape ends  *)
(* the event loop.  Projects 01 and 04-07 have called exit() as soon as    *)
(* the event is handled; in projects 02, 03 and 08 CloseRequested calls    *)
(* exit() and a pressed Escape leaves a UserSignal::Quit in flight until   *)
(* its delivery calls exit(); in all of them the loop eventually exits.    *)
(***************************************************************************)
C11_Handled ==
  /\ close_requested => exit_called
  /\ (escape_pressed /\ lp_project \notin ProxyProjects) => exit_called
  /\ (escape_pressed /\ lp_project \in ProxyProjects) =>
       (exit_called \/ \E i \in 1..Len(user_events) : user_events[i] = "Quit")

C11_EscapeOrCloseExits ==
  /\ [](loop_state # "idle" => C11_Handled)
  /\ ((escape_pressed \/ close_requested) ~> (loop_state = "exited"))

C11_Witness ==
  /\ lp_project = 8
  /\ escape_pressed
  /\ ~close_requested
  /\ loop_state = "exited"

(***************************************************************************)
(* C12: asset_path(name) returns the first path that exists among          *)
(* assets/<name>, ../assets/<name> and ../../assets/<name>, in that order, *)
(* and panics with "Could not find <name>" when none of the three exists.  *)
(***************************************************************************)
C12_Tried(name) ==
  <<"assets/" \o name, "../assets/" \o name, "../../assets/" \o name>>

C12_Existing(name) == {i \in 1..3 : C12_Tried(name)[i] \in files}

C12_FirstExisting ==
  ap_result.kind # "idle" =>
    IF C12_Existing(ap_name) = {}
      THEN /\ ap_result.kind = "panic"
           /\ ap_result.value = "Could not find " \o ap_name
      ELSE /\ ap_result.kind = "return"
           /\ \E i \in C12_Existing(ap_name) :
                /\ \A j \in C12_Existing(ap_name) : i <= j
                /\ ap_result.value = C12_Tried(ap_name)[i]

\* the first directory has no teapot.obj, the other two have: the second wins
C12_Witness ==
  /\ ap_name = "teapot.obj"
  /\ files = {"../assets/teapot.obj", "../../assets/teapot.obj", "assets/sphere.obj"}
  /\ ap_result = [kind |-> "return", value |-> "../assets/teapot.obj"]

(***************************************************************************)
(* C13: in project-08, after any sequence of Scene::handle_drag,           *)
(* handle_resize, handle_scroll and 'p' presses, view(), projection() and  *)
(* view_projection() return the matrices computed from the current pos,    *)
(* looking_at, projection and aspect: the cache is never stale.            *)
(***************************************************************************)
C13_Fresh(camera) ==
  [view |-> <<"look_at_rh", camera.pos, camera.looking_at>>,
   projection |->
     IF camera.projection[1] = "Orthographic"
       THEN <<"scale * orthographic_rh_gl", camera.pos.dist, camera.aspect>>
       ELSE <<"perspective_rh_gl", camera.projection[2], camera.aspect>>,
   view_projection |->
     <<"mul",
       IF camera.projection[1] = "Orthographic"
         THEN <<"scale * orthographic_rh_gl", camera.pos.dist, camera.aspect>>
         ELSE <<"perspective_rh_gl", camera.projection[2], camera.aspect>>,
       <<"look_at_rh", camera.pos, camera.looking_at>>>>]

C13_CacheNeverStale ==
  /\ [](cam # <<>> /\ cam.cache # None => cam.cache[1] = C13_Fresh(cam))
  /\ [][cam_op' \in CamMatrices => cam_out' = Some(C13_Fresh(cam')[cam_op'])]_vars

\* a read after a scroll, a resize and a 'p' press that changed all inputs
C13_Witness ==
  /\ cam_op = "projection"
  /\ cam.pos.dist = 2
  /\ cam.aspect = <<2, 1>>
  /\ cam.projection = <<"Orthographic">>
  /\ cam_out = Some(<<"scale * orthographic_rh_gl", 2, <<2, 1>>>>)

(***************************************************************************)
(* C14: in projects 03, 04 and 05, at every RedrawRequested event, after   *)
(* any sequence of window events (the empty one too), the cached matrices  *)
(* of each camera used for rendering are calc_view(), calc_proj() and      *)
(* their product for its current aspect ratio, distance, rotation and      *)
(* perspective flag; in project-05 the indirect scene's camera too.        *)
(***************************************************************************)
C14_UpToDate(camera) ==
  /\ camera.m_view = <<"look_at_rh", camera.rotation, camera.distance>>
  /\ camera.m_proj =
       IF camera.perspective
         THEN <<"perspective", 60, camera.aspect_ratio>>
         ELSE <<"orthographic / distance", camera.aspect_ratio, camera.distance>>
  /\ camera.m_view_proj = <<"mul", camera.m_proj, camera.m_view>>

C14_CachedMatricesCurrent ==
  vc_op = "RedrawRequested" =>
    /\ C14_UpToDate(world_camera)
    /\ vc_project = 5 => C14_UpToDate(indirect_camera[1])

\* what does hold: a camera whose update_view has run is up to date
C14_UpdatedCameraCurrent ==
  vc_op # "idle" =>
    /\ world_camera.m_view # Identity => C14_UpToDate(world_camera)
    /\ (vc_project = 5 /\ indirect_camera[1].m_view # Identity) =>
         C14_UpToDate(indirect_camera[1])

(***************************************************************************)
(* C15: in projects 04-07 new_events always sets the control flow to       *)
(* WaitUntil(last_update + TARGET_FRAME_TIME) and runs the update only     *)
(* when at least TARGET_FRAME_TIME has elapsed since last_update; the      *)
(* update runs from nowhere else, sets last_update to the current time     *)
(* and requests a redraw.  Two consecutive updates are never less than     *)
(* TARGET_FRAME_TIME apart and the UPS figure never divides by zero.       *)
(***************************************************************************)
C15_Updated == updates' # updates

C15_Timing ==
  /\ tm_op' = "new_events" =>
       control_flow' = Some(last_update + TARGET_FRAME_TIME)
  /\ C15_Updated =>
       /\ tm_op' = "new_events"
       /\ now - last_update >= TARGET_FRAME_TIME
       /\ last_update' = now'

C15_Spacing ==
  /\ Len(updates) = 2 => updates[2] - updates[1] >= TARGET_FRAME_TIME
  /\ ups # None => ups[1][1] # "panic"

\* C15 as stated: every update requests a redraw
C15_UpdateAsStated ==
  /\ [][C15_Timing /\ (C15_Updated => redraw_requested')]_vars
  /\ [](tm_op # "idle" => C15_Spacing)

\* C15 as the code has it: the update requests a redraw of the window when
\* the window exists (new_events can run before resumed has created it)
C15_UpdateTiming ==
  /\ [][C15_Timing /\ (C15_Updated /\ tm_window => redraw_requested')]_vars
  /\ [](tm_op # "idle" => C15_Spacing)

\* two updates of project-04 exactly one frame time apart, a redraw pending
C15_Witness ==
  /\ tm_project = 4
  /\ tm_window
  /\ Len(updates) = 2
  /\ updates[2] - updates[1] = TARGET_FRAME_TIME
  /\ ups = Some(<<"u128", 1000000000 \div TARGET_FRAME_TIME>>)
  /\ redraw_requested
====
